---- MODULE Spec2Model ----
(***************************************************************************)
(* STLink v2 download utility (stlink-download/stlinkv2-util.c): the host  *)
(* session, the bulk transfers it puts on the wire, and the target MCU     *)
(* behind the probe.  The flash writer, the erase drivers and the memory   *)
(* read service are modelled statement by statement; the target answers    *)
(* each command from its memory, its core state and its flash status.      *)
(*                                                                         *)
(* sl->verbose is 0 (its value unless -v is given), so the diagnostic      *)
(* reads made under sl->verbose are not issued.  USB transfers complete.   *)
(***************************************************************************)
EXTENDS Integers, Sequences, FiniteSets, TLC

VARIABLES
    bigendian,   \* is_bigendian(): the byte order of the host
    sl,          \* struct stlink: chip_index, command frame, data buffer
    tgt,         \* the target MCU: memory, pc, core state, flash status
    wire,        \* the transfers made by stl_do_cmd, in order
    pc,          \* position of the running host operation
    fw,          \* locals of stl_flash_write
    er,          \* locals of the erase drivers
    rd,          \* locals of stl_read and the caller's buffer
    runs,        \* the calls of stl_loader made so far
    id,          \* locals of stm_id_chip and the warnings it has printed
    kick,        \* locals of stl_kick_mode and the probe it talks to
    call,        \* one primitive called on its own: arguments, USB transfers, result
    fv,          \* locals of stlink_fverify, the file and the blocks compared
    mn,          \* main: the command line, the command being run, the exit status
    cd,          \* the endian codec on its own: value, bytes, value read back
    ld           \* the core running a loader: image, registers, flash controller

vars == <<bigendian, sl, tgt, wire, pc, fw, er, rd, runs, id, kick, call, fv, mn, cd, ld>>

(***************************************************************************)
(* Bounds of the model.                                                    *)
(***************************************************************************)
MaxSmallSize == 6     \* small transfer sizes are 1..MaxSmallSize
MaxBlocks == 1        \* sizes around the block-size multiples 1..MaxBlocks

(***************************************************************************)
(* Integer helpers: C's unsigned arithmetic and bit operations.  A         *)
(* uint32_t is held as its 32-bit pattern read in two's complement (the    *)
(* model checker integers, 32 bits wide): 0xcdef89ab is -839939669.  \div  *)
(* and % round down, so bytes and bits come out as those of the pattern.   *)
(***************************************************************************)
\* a & b, for a mask b >= 0
RECURSIVE BitAnd(_, _)
BitAnd(a, b) ==
    IF b = 0 THEN 0
    ELSE (a % 2) * (b % 2) + 2 * BitAnd(a \div 2, b \div 2)

\* a | b, for a, b >= 0
BitOr(a, b) == a + b - BitAnd(a, b)

U8(x) == x % 256
U16(x) == x % 65536

\* byte i (0 = least significant) of the value x
ByteOf(x, i) == (x \div (256 ^ i)) % 256

\* the top byte of a 32-bit pattern, as it weighs in two's complement
TopByte(b) == IF b >= 128 THEN b - 256 ELSE b

\* the value of four bytes, least significant first
LE32(b) == b[1] + 256 * b[2] + 65536 * b[3] + 16777216 * TopByte(b[4])
LE16(b) == b[1] + 256 * b[2]

Max(a, b) == IF a > b THEN a ELSE b
Min(a, b) == IF a < b THEN a ELSE b

(***************************************************************************)
(* Host object representation: how the host lays out a uint32_t and a      *)
(* uint16_t in memory, and what a cast load from bytes gives.              *)
(***************************************************************************)
HostRep32(ui) ==
    IF bigendian
    THEN <<ByteOf(ui, 3), ByteOf(ui, 2), ByteOf(ui, 1), ByteOf(ui, 0)>>
    ELSE <<ByteOf(ui, 0), ByteOf(ui, 1), ByteOf(ui, 2), ByteOf(ui, 3)>>

HostRep16(ui) ==
    IF bigendian
    THEN <<ByteOf(ui, 1), ByteOf(ui, 0)>>
    ELSE <<ByteOf(ui, 0), ByteOf(ui, 1)>>

\* *(uint32_t *)p and *(uint16_t *)p
HostLoad32(b) ==
    IF bigendian
    THEN b[4] + 256 * b[3] + 65536 * b[2] + 16777216 * TopByte(b[1])
    ELSE LE32(b)

HostLoad16(b) ==
    IF bigendian THEN b[2] + 256 * b[1] ELSE LE16(b)

(***************************************************************************)
(* Endian codec.                                                           *)
(***************************************************************************)
write_uint32(ui) ==
    LET p == HostRep32(ui)
    IN IF ~bigendian THEN <<p[1], p[2], p[3], p[4]>>
       ELSE <<p[4], p[3], p[2], p[1]>>

write_uint16(ui) ==
    LET p == HostRep16(ui)
    IN IF ~bigendian THEN <<p[1], p[2]>> ELSE <<p[2], p[1]>>

\* c is the four bytes c[pt] .. c[pt+3]
read_uint32(c) ==
    LET p == IF ~bigendian THEN <<c[1], c[2], c[3], c[4]>>
             ELSE <<c[4], c[3], c[2], c[1]>>
    IN HostLoad32(p)

(***************************************************************************)
(* Byte buffers.  A buffer is the sequence of its bytes up to the highest  *)
(* index written; the session is zero-filled (static storage, memset in    *)
(* stl_init), so a byte beyond that is 0.                                  *)
(***************************************************************************)
BufGet(buf, i) == IF i < Len(buf) THEN buf[i + 1] ELSE 0

Fill(v, n) == [k \in 1..n |-> v]

\* the n bytes of buf from index off
BufTake(buf, off, n) ==
    IF off + n <= Len(buf) THEN SubSeq(buf, off + 1, off + n)
    ELSE SubSeq(buf, off + 1, Len(buf)) \o Fill(0, off + n - Max(off, Len(buf)))

\* memcpy(buf + off, bytes, Len(bytes))
BufPut(buf, off, bytes) ==
    BufTake(buf, 0, off) \o bytes \o SubSeq(buf, off + Len(bytes) + 1, Len(buf))

\* memset(buf, v, n)
BufFill(buf, v, n) == BufPut(buf, 0, Fill(v, n))

(***************************************************************************)
(* Program constants (decimal; the source writes most of them in hex).     *)
(***************************************************************************)
FLASH_POLL_LIMIT == 200
CDB_SIZE == 10
Q_BUF_LEN == 6148                   \* 6*1024 + 4
STLINK_CORE_RUNNING == 128          \* 0x80
STLINK_CORE_HALTED == 129           \* 0x81
STLinkParamToDev == 0
STLinkParamFromDev == 1
STLinkDebugCommand == 242           \* 0xF2
STLinkDebugGetStatus == 1
STLinkDebugReadCoreID == 34         \* 0x22
STLinkDebugEnterMode == 32
STLinkDebugEnterSWD == 163
STLinkDFUCommand == 243
STLinkGetCurrentMode == 245
STLinkDFUModeExit == 7
STLinkDevMode_DFU == 0
STLinkDevMode_Mass == 1
STLinkDevMode_Debug == 2
STLinkDevMode_Bootloader == 4
KICK_ATTEMPTS == 10                 \* for (i = 0; i < 10; i++)
STLinkDebugWriteReg == 6
STLinkDebugReadMem32bit == 7
STLinkDebugWriteMem32bit == 8
STLinkDebugRunCore == 9
STLinkDebugWriteMem8bit == 13       \* 0x0D

FLASH_REGS_ADDR == 1073881088       \* 0x40022000
FLASH_KEYR == FLASH_REGS_ADDR + 4
FLASH_SR == FLASH_REGS_ADDR + 12
FLASH_CR == FLASH_REGS_ADDR + 16
FLASH_AR == FLASH_REGS_ADDR + 20
FLASH_KEY1 == 1164378403            \* 0x45670123
FLASH_KEY2 == -839939669            \* 0xcdef89ab

L15_FLASH_BASE == 1073888256        \* 0x40023C00
L15_FLASH_PECR == L15_FLASH_BASE + 4
L15_FLASH_PEKEYR == L15_FLASH_BASE + 12
L15_FLASH_PRGKEYR == L15_FLASH_BASE + 16
L15_FLASH_SR == L15_FLASH_BASE + 24
L15_FLASH_OBR == L15_FLASH_BASE + 28
L15_FLASH_PEKEY1 == -1985229329     \* 0x89abcdef
L15_FLASH_PEKEY2 == 33752069        \* 0x02030405
L15_FLASH_PRGKEY1 == -1935823169    \* 0x8C9DAEBF
L15_FLASH_PRGKEY2 == 320083222      \* 0x13141516

FLASH_SR_BSY == 1
FLASH_SR_PGERR == 4
FLASH_SR_WRPRTERR == 16
FLASH_SR_EOP == 32
FLASH_CR_PER == 2
FLASH_CR_MER == 4
FLASH_CR_STRT == 64
FLASH_CR_LOCK == 128

F4_FLASH_REGS == 1073888256         \* 0x40023C00
F4_FLASH_KEYR == F4_FLASH_REGS + 4
F4_FLASH_SR == F4_FLASH_REGS + 12
F4_FLASH_SR_BSY == 65536            \* 0x00010000
F4_FLASH_CR == F4_FLASH_REGS + 16
F4_FLASH_CR_STRT == 65536           \* 0x00010000

FLASH_BANK2_REGS == 1073881152      \* 0x40022040, stl_loader's second bank
UPPER_BANK_ADDR == 134742016        \* 0x08080000
MASS_ERASE == 2577                  \* 0xa11
FLASH_WR_BLK_SIZE == 2048
READ_BLK_SIZE == 1024
ERASE_POLL_LIMIT == 1000

DBGMCU_IDCODE == -536600576         \* 0xE0042000
M0_IDCODE_ADDR == 1073829888        \* 0x40015800, read when DBGMCU_IDCODE is 0

ChipCapF4Flash == 1
ChipCapL15Flash == 2
ChipCapL1Addrs == 4

(***************************************************************************)
(* arm_cores[]: the known cores; the record with core_id 0 ends the table.  *)
(***************************************************************************)
arm_cores == <<
    [name |-> "Cortex-M0", cap_flags |-> 0, core_id |-> 196154487],
    [name |-> "Cortex-M3 r1", cap_flags |-> 0, core_id |-> 463475831],
    [name |-> "Cortex-M3 r2p0", cap_flags |-> 0, core_id |-> 1268778103],
    [name |-> "Cortex-M4 r0", cap_flags |-> 0, core_id |-> 731911287],
    [name |-> "Unknown core", cap_flags |-> 0, core_id |-> 0] >>

(***************************************************************************)
(* stm_devids[]: the personality table.  C index i is stm_devids[i + 1].   *)
(***************************************************************************)
DevRec(nm, cap, core, idc, fsz, fpg, sysb, syssz, ramsz) ==
    [name |-> nm, cap_flags |-> cap, core_id |-> core, dbgmcu_idcode |-> idc,
     flash_base |-> 134217728, flash_size |-> fsz * 1024, flash_pgsize |-> fpg,
     sysflash_base |-> sysb, sysflash_size |-> syssz * 1024,
     sysflash_pgsize |-> 1024,
     sram_base |-> 536870912, sram_size |-> ramsz * 1024]

stm_devids == <<
    DevRec("STM32", 0, 463475831, 268436480, 128, 1024, 536865792, 2, 8),
    DevRec("STM32F051-R8T6", 0, 196154487, 536896576, 64, 1024, 536865792, 8, 8),
    DevRec("STM32F100", 0, 463475831, 268526624, 128, 1024, 536866816, 2, 8),
    DevRec("STM32F103R4T6", 0, 463475831, 24189, 32, 1024, 536866816, 2, 4),
    DevRec("STM32F103C8T6", 0, 463475831, 537093136, 64, 1024, 536866816, 2, 20),
    DevRec("STM32F105RB", 0, 1000342647, 268526640, 32, 1024, 536866816, 2, 4),
    DevRec("STM32F10x", 0, 463475831, 268526610, 32, 1024, 536866816, 2, 4),
    DevRec("STM32F10x", 0, 463475831, 268526608, 128, 1024, 536866816, 2, 8),
    DevRec("STM32F10x", 0, 463475831, 268526612, 512, 1024, 536866816, 2, 8),
    DevRec("STM32F10x", 0, 463475831, 268526640, 1024, 2048, 536862720, 6, 8),
    DevRec("STM32F107", 0, 463475831, 268526616, 256, 2048, 536850432, 18, 8),
    DevRec("STM32L152", 6, 463475831, 270033942, 128, 2048, 536850432, 16, 8),
    DevRec("STM32F303VCT6", 0, 1000342647, 268526626, 256, 2048, 536850432, 18, 8),
    DevRec("STM32F407", 1, 731911287, 536896529, 256, 2048, 536850432, 18, 8),
    DevRec("STM32F4xx", 1, 731911287, 268461088, 256, 2048, 536850432, 18, 8) >>

\* stm_devids[sl->chip_index].cap_flags & flag
HasCap(chip_index, flag) ==
    BitAnd(stm_devids[chip_index + 1].cap_flags, flag) # 0

(***************************************************************************)
(* The loader programs, as arrays of uint16_t.                             *)
(***************************************************************************)
db_loader_code == <<
    18443, 18700, 18956, 19465, 9473, 24869,     \* 480B 490C 4A0C 4c09 2501 6125
    63536, 15106, 63521, 15106,                  \* f830 3b02 f821 3b02
    13569, 26851, 61459, 3841, 53754,            \* 3501 68e3 f013 0f01 d1fa
    61459, 3860, 53506, 14849, 53745,            \* f013 0f14 d102 3a01 d1f1
    24866, 48640,                                \* 6122 be00
    8192, 16386, 64, 8192, 3024, 2048, 6, 0 >>   \* the four parameter words

f4_loader_code == <<
    18443, 18700, 18956, 19465, 9473, 24869,
    63536, 15106, 63521, 15106,
    13569, 26851, 61459, 3841, 53754,
    61459, 4080, 53506, 14849, 53745,            \* f013 0ff0: the F4 error mask
    24866, 48640,
    8192, 16386, 64, 8192, 3024, 2048, 6, 0 >>

\* sizeof taken as the number of array elements; C21_ImageOf64Bytes does not
\* hold of a loader laid out so
SizeofCode_Elements(code) == Len(code)

\* sizeof(code): two bytes per array element
SizeofCode(code) == 2 * Len(code)

\* the bytes memcpy() takes from a uint16_t array on this host
CodeImage(code) ==
    [k \in 1..SizeofCode(code) |-> HostRep16(code[(k + 1) \div 2])[2 - (k % 2)]]

\* the bytes of the program as the Thumb core fetches it (little-endian)
ThumbBytes(code) ==
    [k \in 1..SizeofCode(code) |-> ByteOf(code[(k + 1) \div 2], 1 - (k % 2))]

(***************************************************************************)
(* The target MCU, as the probe sees it.  tgt.mem holds the bytes written  *)
(* to SRAM over the debug port and the flash bytes programmed by a loader; *)
(* erased flash reads 0xFF.  tgt.sr is the status register of the chip's   *)
(* flash controller.                                                       *)
(***************************************************************************)
FLASH_BASE == 134217728             \* 0x08000000
FLASH_WINDOW == 1048576             \* the largest flash of the table, 1024 KB
SRAM_BASE == 536870912              \* 0x20000000
SRAM_WINDOW == 20480                \* the largest SRAM of the table, 20 KB

InFlash(a) == a >= FLASH_BASE /\ a < FLASH_BASE + FLASH_WINDOW
InSram(a) == a >= SRAM_BASE /\ a < SRAM_BASE + SRAM_WINDOW

\* the address of the flash status register of the chip's own controller
ChipSR(chip) ==
    IF HasCap(chip, ChipCapF4Flash) THEN F4_FLASH_SR
    ELSE IF HasCap(chip, ChipCapL15Flash) THEN L15_FLASH_SR
    ELSE FLASH_SR

\* tgt.mem is the sequence of the stores made, each a start address a and
\* its bytes b; a later store covers an earlier one
Overlaps(r, a, n) == r.a < a + n /\ a < r.a + Len(r.b)
Covers(r, a, n) == r.a <= a /\ a + n <= r.a + Len(r.b)

RECURSIVE LastStore(_, _, _, _)
LastStore(m, a, n, i) ==
    IF i = 0 THEN 0
    ELSE IF Overlaps(m[i], a, n) THEN i
    ELSE LastStore(m, a, n, i - 1)

\* one byte of target address space
MemByte(t, a) ==
    LET i == LastStore(t.mem, a, 1, Len(t.mem))
    IN IF i > 0 THEN t.mem[i].b[a - t.mem[i].a + 1]
       ELSE IF a >= ChipSR(t.chip) /\ a < ChipSR(t.chip) + 4
            THEN ByteOf(t.sr, a - ChipSR(t.chip))
       ELSE IF InFlash(a) THEN 255
       ELSE IF InSram(a) THEN (a % 251) + 1
       ELSE 0

MemBytes(t, a, n) ==
    LET i == LastStore(t.mem, a, n, Len(t.mem))
    IN IF i > 0 /\ Covers(t.mem[i], a, n)
       THEN SubSeq(t.mem[i].b, a - t.mem[i].a + 1, a - t.mem[i].a + n)
       ELSE [k \in 1..n |-> MemByte(t, a + k - 1)]

\* the memory after the bytes are stored at address a
MemStore(t, a, bytes) ==
    IF bytes = <<>> THEN t.mem
    ELSE Append(SelectSeq(t.mem, LAMBDA r : ~Covers([a |-> a, b |-> bytes],
                                                    r.a, Len(r.b))),
                [a |-> a, b |-> bytes])

CmdAddr(e) == LE32(SubSeq(e.cmd, 3, 6))
CmdLen(e) == LE16(SubSeq(e.cmd, 7, 8))
IsDebugCmd(e, sub) == e.cmd[1] = STLinkDebugCommand /\ e.cmd[2] = sub
IsMemWrite(e) ==
    IsDebugCmd(e, STLinkDebugWriteMem32bit) \/ IsDebugCmd(e, STLinkDebugWriteMem8bit)

\* what the target does with a command put on the wire
TargetExec(t, e) ==
    IF IsMemWrite(e) /\ InSram(CmdAddr(e))
    THEN [t EXCEPT !.mem =
             MemStore(t, CmdAddr(e), SubSeq(e.data, 1, Min(CmdLen(e), Len(e.data))))]
    ELSE IF IsDebugCmd(e, STLinkDebugWriteReg) /\ e.cmd[3] = 15
    THEN [t EXCEPT !.pc = LE32(SubSeq(e.cmd, 4, 7))]
    ELSE IF IsDebugCmd(e, STLinkDebugRunCore)
    THEN [t EXCEPT !.core = "running", !.polls = 0]
    ELSE IF IsDebugCmd(e, STLinkDebugGetStatus) /\ t.core = "running"
    THEN [t EXCEPT !.polls = Min(@ + 1, FLASH_POLL_LIMIT + 1)]
    ELSE t

\* the bytes the target returns on the IN endpoint
TargetReply(t, e) ==
    IF IsDebugCmd(e, STLinkDebugReadMem32bit)
    THEN MemBytes(t, CmdAddr(e), CmdLen(e))
    ELSE IF IsDebugCmd(e, STLinkDebugGetStatus)
    THEN <<IF t.core = "halted" THEN STLINK_CORE_HALTED
           ELSE IF t.core = "running" THEN STLINK_CORE_RUNNING
           ELSE 0, 0>>
    ELSE IF e.cmd[1] = STLinkGetCurrentMode
    THEN <<ByteOf(t.mode, 0), ByteOf(t.mode, 1)>>
    ELSE IF IsDebugCmd(e, STLinkDebugReadCoreID)
    THEN <<ByteOf(t.core_id, 0), ByteOf(t.core_id, 1), ByteOf(t.core_id, 2),
           ByteOf(t.core_id, 3)>>
    ELSE <<STLINK_CORE_RUNNING, 0>>

(***************************************************************************)
(* stl_do_cmd: one command-phase transfer, then the data phase.  A world   *)
(* W is the session, the target and the wire.                              *)
(***************************************************************************)
\* consecutive identical transfers are kept as one entry with a count
WireLog(w, e) ==
    IF Len(w) > 0 /\ [w[Len(w)] EXCEPT !.rep = 1] = e
    THEN [w EXCEPT ![Len(w)].rep = @ + 1]
    ELSE Append(w, e)

stl_do_cmd(W) ==
    LET s == W.sl
        out == IF s.xfer_dir = STLinkParamToDev
               THEN BufTake(s.data_buf, 0, s.data_len) ELSE <<>>
        e == [cmd |-> s.cmd_buf, cmd_len |-> s.cmd_len, dir |-> s.xfer_dir,
              data_len |-> s.data_len, data |-> out, rep |-> 1]
        reply == TargetReply(W.tgt, e)
        got == IF s.xfer_dir # STLinkParamToDev /\ s.data_len # 0
               THEN SubSeq(reply, 1, Min(Len(reply), s.data_len)) ELSE <<>>
    IN [sl |-> [s EXCEPT !.data_buf = BufPut(@, 0, got)],
        tgt |-> TargetExec(W.tgt, e),
        wire |-> WireLog(W.wire, e)]

\* bytes stored at cmd_buf + off
CmdPut(cb, off, bytes) ==
    [k \in 1..CDB_SIZE |->
        IF k > off /\ k <= off + Len(bytes) THEN bytes[k - off] ELSE cb[k]]

\* the session as stlink_cmd hands it to stl_do_cmd
stlink_cmd_frame(W, st_cmd1, st_cmd2, resp_len) ==
    [W EXCEPT
        !.sl.cmd_buf = CmdPut(@, 0, <<STLinkDebugCommand, st_cmd1, U8(st_cmd2)>>),
        !.sl.cmd_len = 16,
        !.sl.data_len = resp_len,
        !.sl.xfer_dir = STLinkParamFromDev,
        !.sl.data_buf = BufFill(@, 85, resp_len + 12)]

stlink_cmd(W, st_cmd1, st_cmd2, resp_len) ==
    stl_do_cmd(stlink_cmd_frame(W, st_cmd1, st_cmd2, resp_len))

\* the value stlink_cmd returns, from the session it leaves
stlink_cmd_ret(W, resp_len) ==
    IF resp_len = 2 THEN HostLoad16(BufTake(W.sl.data_buf, 0, 2))
    ELSE IF resp_len = 4 THEN read_uint32(BufTake(W.sl.data_buf, 0, 4))
    ELSE 0

stl_get_status(W) == stlink_cmd(W, STLinkDebugGetStatus, 0, 2)
stl_state_run(W) == stlink_cmd(W, STLinkDebugRunCore, 0, 2)
stl_write_reg(W, reg_val, reg_idx) ==
    stlink_cmd([W EXCEPT !.sl.cmd_buf = CmdPut(@, 3, write_uint32(reg_val))],
               STLinkDebugWriteReg, reg_idx, 2)

\* a write command that takes the 8-bit variant for any length that is not a
\* multiple of 4; C23_Wr32Dispatch does not hold of it
stl_wr32_rejects_Never(len) == FALSE

\* stl_wr32_cmd returns -1 and sends nothing for a length it rejects
stl_wr32_rejects(len) == U16(len) % 4 # 0 /\ U16(len) >= 64

\* the session as stl_wr32_cmd leaves it when it returns -1, and as it
\* hands it to stl_do_cmd otherwise
stl_wr32_frame(W, addr, len) ==
    LET l == U16(len)
        W0 == [W EXCEPT !.sl.cmd_buf = CmdPut(@, 0, <<STLinkDebugCommand>>)]
        sub == IF l % 4 = 0 THEN STLinkDebugWriteMem32bit
               ELSE STLinkDebugWriteMem8bit
    IN IF stl_wr32_rejects(len) THEN W0
       ELSE [W0 EXCEPT
                !.sl.cmd_buf = CmdPut(CmdPut(CmdPut(@, 1, <<sub>>),
                                   2, write_uint32(addr)), 6, write_uint16(l)),
                !.sl.cmd_len = 8,
                !.sl.data_len = l,
                !.sl.xfer_dir = STLinkParamToDev]

stl_wr32_cmd(W, addr, len) ==
    IF stl_wr32_rejects(len) THEN stl_wr32_frame(W, addr, len)
    ELSE stl_do_cmd(stl_wr32_frame(W, addr, len))

sl_wr32(W, addr, val) ==
    stl_wr32_cmd([W EXCEPT !.sl.data_buf = BufPut(@, 0, write_uint32(val))],
                 addr, 4)

\* the session as stl_rd32_cmd hands it, through stlink_cmd, to stl_do_cmd
stl_rd32_frame(W, addr, len) ==
    stlink_cmd_frame([W EXCEPT !.sl.cmd_buf =
                   CmdPut(CmdPut(@, 2, write_uint32(addr - (addr % 4))),
                          6, write_uint16(U16(U16(len) + 3 - ((U16(len) + 3) % 4))))],
               STLinkDebugReadMem32bit, addr, U16(len))

stl_rd32_cmd(W, addr, len) == stl_do_cmd(stl_rd32_frame(W, addr, len))

\* *(uint32_t *)sl->data_buf, the value stl_rd32_cmd and sl_rd32 return
rd32_ret(W) == HostLoad32(BufTake(W.sl.data_buf, 0, 4))

sl_rd32(W, addr) == stl_rd32_cmd(W, addr, 4)

\* consecutive sl_wr32 calls; writes is the sequence of their <<addr, val>>
RECURSIVE sl_wr32_each(_, _)
sl_wr32_each(W, writes) ==
    IF writes = <<>> THEN W
    ELSE sl_wr32_each(sl_wr32(W, writes[1][1], writes[1][2]), Tail(writes))

World == [sl |-> sl, tgt |-> tgt, wire |-> wire]

(***************************************************************************)
(* stl_loader: build the loader image in the data buffer, upload it, set   *)
(* the PC and start the core.                                              *)
(***************************************************************************)
LoaderCode(chip) ==
    IF HasCap(chip, ChipCapF4Flash) THEN f4_loader_code ELSE db_loader_code

\* a loader call that takes the controller of the first bank whatever the
\* destination; C11_CtrlBasePerChunk does not hold of it
LoaderCtrlBase_FirstBankOnly(chip, flash_addr) ==
    IF HasCap(chip, ChipCapF4Flash) THEN F4_FLASH_REGS ELSE FLASH_REGS_ADDR

LoaderCtrlBase(chip, flash_addr) ==
    IF HasCap(chip, ChipCapF4Flash) THEN F4_FLASH_REGS
    ELSE IF stm_devids[chip + 1].flash_size > 256 * 1024
            /\ flash_addr >= UPPER_BANK_ADDR
         THEN FLASH_BANK2_REGS
         ELSE FLASH_REGS_ADDR

\* params[-4 .. -1] = ..., stored as the host lays out a uint32_t
LoaderParams(chip, flash_addr, size) ==
    LET offset == SizeofCode(LoaderCode(chip))
        prog_base == stm_devids[1].sram_base
    IN HostRep32(LoaderCtrlBase(chip, flash_addr))
       \o HostRep32(prog_base + offset)
       \o HostRep32(flash_addr)
       \o HostRep32(size \div 2)

\* the data buffer after the two memcpy() and the four stores
LoaderImage(db, chip, flash_addr, payload, size) ==
    LET offset == SizeofCode(LoaderCode(chip))
    IN BufPut(BufPut(BufPut(db, 0, CodeImage(LoaderCode(chip))),
                     offset - 16, LoaderParams(chip, flash_addr, size)),
              offset, payload)

stl_loader(W, flash_addr, payload, size) ==
    LET chip == W.sl.chip_index
        offset == SizeofCode(LoaderCode(chip))
        prog_base == stm_devids[1].sram_base
        W1 == stl_wr32_cmd(
                 [W EXCEPT !.sl.data_buf =
                      LoaderImage(@, chip, flash_addr, payload, size)],
                 prog_base, offset + size)
        W2 == stl_write_reg(W1, prog_base, 15)
    IN stl_state_run(W2)

(***************************************************************************)
(* The loader on the target (db_loader_code / f4_loader_code, and          *)
(* stm_flash_bulk_write in flash-transfer.c): it takes its four parameters *)
(* from the words before the payload, copies count half-words from src to  *)
(* dst and stops at its breakpoint; on a status error it stops early.      *)
(***************************************************************************)
PROG_BYTES == 44                    \* the instructions before the parameters

LoaderPresent(t) ==
    \E code \in {db_loader_code, f4_loader_code} :
        MemBytes(t, t.pc, PROG_BYTES) = SubSeq(ThumbBytes(code), 1, PROG_BYTES)

LoaderParam(t, j) == LE32(MemBytes(t, t.pc + PROG_BYTES + 4 * j, 4))

\* the target when the core stops; err is the error the flash controller
\* raises (0: none).  A core started on anything else than a loader stops
\* without programming.  A loader started with a count of 0 copies its first
\* half-word before it tests the count and, the count wrapped, does not reach
\* its breakpoint unless an error stops it.
LoaderRun(t, err) ==
    IF ~LoaderPresent(t) THEN [t EXCEPT !.core = "halted"]
    ELSE IF err # 0 THEN [t EXCEPT !.core = "halted", !.sr = err]
    ELSE IF LoaderParam(t, 3) = 0
    THEN [t EXCEPT !.mem = MemStore(t, LoaderParam(t, 2),
                               MemBytes(t, LoaderParam(t, 1), 2))]
    ELSE [t EXCEPT !.core = "halted", !.sr = FLASH_SR_EOP,
                   !.mem = MemStore(t, LoaderParam(t, 2),
                               MemBytes(t, LoaderParam(t, 1), 2 * LoaderParam(t, 3)))]

\* the numbers of status polls after which a started core may have stopped
HaltDelays == {0, FLASH_POLL_LIMIT}

TargetHalt ==
    /\ pc = "fw_poll"
    /\ tgt.core = "running"
    /\ tgt.polls \in HaltDelays
    /\ \E err \in {0, FLASH_SR_PGERR, FLASH_SR_WRPRTERR} :
           tgt' = LoaderRun(tgt, err)
    /\ UNCHANGED <<bigendian, sl, wire, pc, fw, er, rd, runs, id, kick, call, fv, mn, cd, ld>>

(***************************************************************************)
(* stl_flash_write.                                                        *)
(***************************************************************************)
\* the caller's buffer: byte i of the data, and the byte after its end; the
\* data starts with DE AD BE EF
SrcByte(i) == IF i < 4 THEN <<222, 173, 190, 239>>[i + 1] ELSE (i * 7 + 3) % 256
FwBufByte(i) == IF i < fw.buf_len THEN SrcByte(i) ELSE fw.pad

\* a chunk size that leaves an odd size as it is; C5_ChunksUntilTimeout does
\* not hold of a writer that cuts its chunks so
FwThisSize_NoRoundUp(size) ==
    IF size > FLASH_WR_BLK_SIZE THEN FLASH_WR_BLK_SIZE ELSE size

FwThisSize(size) ==
    IF size > FLASH_WR_BLK_SIZE THEN FLASH_WR_BLK_SIZE
    ELSE IF size % 2 = 1 THEN size + 1
    ELSE size

FW_Unlock ==
    /\ pc = "fw_unlock"
    /\ LET W3 == sl_wr32_each(World, << <<FLASH_KEYR, FLASH_KEY1>>,
                                        <<FLASH_KEYR, FLASH_KEY2>>,
                                        <<FLASH_SR, 52>> >>)
       IN /\ sl' = W3.sl /\ tgt' = W3.tgt /\ wire' = W3.wire
    /\ pc' = "fw_chunk"
    /\ UNCHANGED <<bigendian, fw, er, rd, runs, id, kick, call, fv, mn, cd, ld>>

FW_Chunk ==
    /\ pc = "fw_chunk"
    /\ LET this_size == FwThisSize(fw.size)
           payload == [k \in 1..this_size |-> FwBufByte(fw.offset + k - 1)]
           W1 == stl_loader(World, fw.flash_addr + fw.offset, payload, this_size)
       IN /\ sl' = W1.sl /\ tgt' = W1.tgt /\ wire' = W1.wire
          /\ fw' = [fw EXCEPT !.this_size = this_size, !.failcount = 0]
          /\ runs' = Append(runs,
                 [flash_addr |-> fw.flash_addr + fw.offset,
                  buf_offset |-> fw.offset, size |-> this_size,
                  before |-> Len(wire)])
    /\ pc' = "fw_poll"
    /\ UNCHANGED <<bigendian, er, rd, id, kick, call, fv, mn, cd, ld>>

FW_Poll ==
    /\ pc = "fw_poll"
    /\ LET W1 == stl_get_status(World)
           st == stlink_cmd_ret(W1, 2)
       IN /\ sl' = W1.sl /\ tgt' = W1.tgt /\ wire' = W1.wire
          /\ IF st # STLINK_CORE_HALTED
             THEN IF fw.failcount + 1 > FLASH_POLL_LIMIT
                  THEN /\ fw' = [fw EXCEPT !.failcount = @ + 1, !.ret = 0,
                                           !.exit = "timeout"]
                       /\ pc' = "done"
                  ELSE /\ fw' = [fw EXCEPT !.failcount = @ + 1]
                       /\ pc' = "fw_poll"
             ELSE /\ fw' = [fw EXCEPT !.offset = @ + fw.this_size,
                                      !.size = @ - fw.this_size,
                                      !.failcount = 0]
                  /\ pc' = IF fw.size - fw.this_size > 0 THEN "fw_chunk"
                           ELSE "fw_finish"
    /\ UNCHANGED <<bigendian, er, rd, runs, id, kick, call, fv, mn, cd, ld>>

\* a writer that returns a status error without re-locking the flash;
\* C8_RelockAfterLastChunk does not hold of it
FW_Finish_NoRelockOnError ==
    /\ pc = "fw_finish"
    /\ LET W1 == sl_rd32(World, FLASH_SR)
           status == BitAnd(rd32_ret(W1), 21)
           W2 == IF status # 0 THEN W1
                 ELSE sl_wr32_each(W1, << <<FLASH_CR, 128>> >>)
       IN /\ sl' = W2.sl /\ tgt' = W2.tgt /\ wire' = W2.wire
          /\ fw' = [fw EXCEPT !.status = status, !.ret = status,
                              !.exit = "normal"]
    /\ pc' = "done"
    /\ UNCHANGED <<bigendian, er, rd, runs, id, kick, call, fv, mn, cd, ld>>

FW_Finish ==
    /\ pc = "fw_finish"
    /\ LET W1 == sl_rd32(World, FLASH_SR)
           status == BitAnd(rd32_ret(W1), 21)
           W2 == sl_wr32_each(W1, << <<FLASH_CR, 128>> >>)
       IN /\ sl' = W2.sl /\ tgt' = W2.tgt /\ wire' = W2.wire
          /\ fw' = [fw EXCEPT !.status = status, !.ret = status,
                              !.exit = "normal"]
    /\ pc' = "done"
    /\ UNCHANGED <<bigendian, er, rd, runs, id, kick, call, fv, mn, cd, ld>>

(***************************************************************************)
(* The flash writer's specification: one stl_flash_write call on a target  *)
(* whose flash is erased.                                                  *)
(***************************************************************************)
Chips == {0, 8, 11, 13}     \* generic F1, high-density F1, L1, F4

\* sizes 1..MaxSmallSize and those around the first multiples of a block
SizesFor(blk) ==
    (1..MaxSmallSize)
    \cup {k * blk + d : k \in 1..MaxBlocks, d \in {-1, 0, 1}}

\* the chip and flash address of a write: every family at the start of its
\* flash, the two-bank F1 also across and above the bank boundary, and the
\* 128 KB F1 at the address where a second bank would start
WriteTargets ==
    {<<chip, FLASH_BASE>> : chip \in Chips}
    \cup {<<8, UPPER_BANK_ADDR - FLASH_WR_BLK_SIZE>>, <<8, UPPER_BANK_ADDR>>,
          <<0, UPPER_BANK_ADDR>>}

\* multi-block writes are tried where the chunks cross the bank boundary and
\* on the F4; a big-endian host is tried with the generic F1 and small sizes
WriteSizes(chip, a) ==
    IF <<chip, a>> \in {<<8, UPPER_BANK_ADDR - FLASH_WR_BLK_SIZE>>, <<13, FLASH_BASE>>}
    THEN SizesFor(FLASH_WR_BLK_SIZE) ELSE 1..MaxSmallSize

WriteHosts(chip, n) == IF chip = 0 /\ n <= MaxSmallSize THEN BOOLEAN ELSE {FALSE}

NoCmd == [k \in 1..CDB_SIZE |-> 0]

InitSession(chip) ==
    [chip_index |-> chip, cmd_buf |-> NoCmd, cmd_len |-> 0, data_len |-> 0,
     xfer_dir |-> STLinkParamToDev, data_buf |-> <<>>, cpu_idcode |-> 0]

InitTarget(chip) ==
    [chip |-> chip, mem |-> <<>>, pc |-> 0, core |-> "halted", polls |-> 0,
     sr |-> 0, core_id |-> 0, mode |-> STLinkDevMode_Debug]

IdleFw == [flash_addr |-> 0, buf_len |-> 0, pad |-> 0, size |-> 0, offset |-> 0,
           this_size |-> 0, failcount |-> 0, status |-> 0, ret |-> 0,
           exit |-> "none"]
IdleEr == [addr_page |-> 0, i |-> 0, status |-> 0, ret |-> 0, driver |-> "none",
           nprep |-> 0]
IdleFv == [file |-> <<>>, pos |-> 0, addr |-> 0, file_rdsize |-> 0, ret |-> 0,
           blocks |-> <<>>]
IdleMn == [args |-> "none", cmd |-> "none", step |-> 0, file |-> <<>>, res |-> 0,
           out |-> <<>>, ret |-> -1]
IdleCd == [x |-> 0, op |-> "none", buf |-> <<>>, y |-> 0]
IdleLd == [chip |-> 0, img |-> <<>>, r |-> [k \in 0..5 |-> 0], ip |-> 0, z |-> FALSE,
           halted |-> TRUE, sr |-> 0, busy |-> 0, cr |-> <<>>,
           stores |-> <<>>]
IdleCall == [op |-> "none", a |-> 0, b |-> 0, ret |-> 0, usb |-> <<>>]
IdleKick == [i |-> 0, stlink_mode |-> 0, core_state |-> 0, ret |-> 0, fd |-> 0]
IdleId == [core_id |-> 0, idcode |-> 0, i |-> 0, warnings |-> {}, ret |-> -1]
IdleRd == [addr |-> 0, n |-> 0, size |-> 0, offset |-> 0, buf |-> <<>>, ret |-> 0]

InitWrite ==
    /\ \E t \in WriteTargets :
          /\ sl = InitSession(t[1])
          /\ tgt = InitTarget(t[1])
          /\ \E n \in WriteSizes(t[1], t[2]), p \in {0, 255} :
                /\ (n % 2 = 0 => p = 0)
                /\ bigendian \in WriteHosts(t[1], n)
                /\ fw = [IdleFw EXCEPT !.flash_addr = t[2], !.buf_len = n,
                                       !.size = n, !.pad = p]
    /\ wire = <<>>
    /\ pc = "fw_unlock"
    /\ er = IdleEr
    /\ rd = IdleRd
    /\ runs = <<>>
    /\ id = IdleId
    /\ kick = IdleKick
    /\ call = IdleCall
    /\ fv = IdleFv
    /\ mn = IdleMn
    /\ cd = IdleCd
    /\ ld = IdleLd

NextWrite == FW_Unlock \/ FW_Chunk \/ FW_Poll \/ FW_Finish \/ TargetHalt

SpecWrite == InitWrite /\ [][NextWrite]_vars

(***************************************************************************)
(* The erase drivers.  Each poll reads the status register of the flash    *)
(* controller, which the target sets as it pleases between two reads.      *)
(***************************************************************************)
SRValues == {0, FLASH_SR_BSY, FLASH_SR_EOP, FLASH_SR_BSY + FLASH_SR_EOP,
             F4_FLASH_SR_BSY, FLASH_SR_PGERR + FLASH_SR_WRPRTERR}

\* the numbers of polls made when the controller changes its status
SRChangePolls == {0, ERASE_POLL_LIMIT - 1}

TargetSR ==
    /\ pc \in {"er_f1_poll", "er_f4_poll", "er_L1_poll"}
    /\ er.i \in SRChangePolls
    /\ \E v \in SRValues \ {tgt.sr} : tgt' = [tgt EXCEPT !.sr = v]
    /\ UNCHANGED <<bigendian, sl, wire, pc, fw, er, rd, runs, id, kick, call, fv, mn, cd, ld>>

Commit(W) == sl' = W.sl /\ tgt' = W.tgt /\ wire' = W.wire

stl_flash_erase_page ==
    /\ pc = "er_call"
    /\ pc' = IF HasCap(sl.chip_index, ChipCapF4Flash) THEN "er_f4"
             ELSE IF HasCap(sl.chip_index, ChipCapL15Flash) THEN "er_L1"
             ELSE "er_f1"
    /\ UNCHANGED <<bigendian, sl, tgt, wire, fw, er, rd, runs, id, kick, call, fv, mn, cd, ld>>

\* sector = addr_page & 0x0f; 0x00202 | (sector<<3), 0x10202 | (sector<<3)
SectorCR(addr_page, bits) == BitOr(bits, (addr_page % 16) * 8)

\* the sl_wr32 calls of each driver before its polling loop: those that
\* unlock and prepare the controller, then those that start the erase
F1_ErasePrep ==
    << <<FLASH_KEYR, FLASH_KEY1>>, <<FLASH_KEYR, FLASH_KEY2>>,
       <<FLASH_SR, FLASH_SR_EOP + FLASH_SR_WRPRTERR + FLASH_SR_PGERR>> >>

\* an F1 driver that knows no sentinel and erases the page at any address;
\* C13_SentinelMeansMassErase does not hold of it
F1_EraseBegin_NoSentinel(addr_page) ==
    << <<FLASH_AR, addr_page>>, <<FLASH_CR, FLASH_CR_PER>>,
       <<FLASH_CR, BitOr(FLASH_CR_STRT, FLASH_CR_PER)>> >>

F1_EraseBegin(addr_page) ==
    IF addr_page = MASS_ERASE
    THEN << <<FLASH_CR, FLASH_CR_MER>>,
            <<FLASH_CR, BitOr(FLASH_CR_STRT, FLASH_CR_MER)>> >>
    ELSE << <<FLASH_AR, addr_page>>, <<FLASH_CR, FLASH_CR_PER>>,
            <<FLASH_CR, BitOr(FLASH_CR_STRT, FLASH_CR_PER)>> >>

F4_ErasePrep ==
    << <<F4_FLASH_KEYR, FLASH_KEY1>>, <<F4_FLASH_KEYR, FLASH_KEY2>>,
       <<F4_FLASH_SR, 243>> >>

\* an F4 driver that selects the sector and starts the erase in one write;
\* C32_F4SectorEraseSequence does not hold of it
F4_EraseBegin_OneWrite(addr_page) ==
    IF addr_page = MASS_ERASE
    THEN << <<F4_FLASH_CR, FLASH_CR_MER>>,
            <<F4_FLASH_CR, BitOr(F4_FLASH_CR_STRT, FLASH_CR_MER)>> >>
    ELSE << <<F4_FLASH_CR, SectorCR(addr_page, 66050)>> >>

F4_EraseBegin(addr_page) ==
    IF addr_page = MASS_ERASE
    THEN << <<F4_FLASH_CR, FLASH_CR_MER>>,
            <<F4_FLASH_CR, BitOr(F4_FLASH_CR_STRT, FLASH_CR_MER)>> >>
    ELSE << <<F4_FLASH_CR, SectorCR(addr_page, 514)>>,
            <<F4_FLASH_CR, SectorCR(addr_page, 66050)>> >>

L1_ErasePrep ==
    << <<L15_FLASH_PEKEYR, L15_FLASH_PEKEY1>>, <<L15_FLASH_PEKEYR, L15_FLASH_PEKEY2>>,
       <<L15_FLASH_PRGKEYR, L15_FLASH_PRGKEY1>>,
       <<L15_FLASH_PRGKEYR, L15_FLASH_PRGKEY2>> >>

L1_EraseBegin(addr_page) ==
    IF addr_page = MASS_ERASE
    THEN << <<L15_FLASH_OBR, 1>>, <<L15_FLASH_OBR, 170>> >>
    ELSE << <<F4_FLASH_CR, SectorCR(addr_page, 514)>>,
            <<F4_FLASH_CR, SectorCR(addr_page, 66050)>> >>

\* a driver up to its polling loop; er.nprep counts the writes made before
\* the first write that starts the erase
EraseStart(at, driver, prep, begin, poll) ==
    /\ pc = at
    /\ Commit(sl_wr32_each(World, prep \o begin))
    /\ er' = [er EXCEPT !.driver = driver, !.i = 0, !.nprep = Len(prep)]
    /\ pc' = poll
    /\ UNCHANGED <<bigendian, fw, rd, runs, id, kick, call, fv, mn, cd, ld>>

F1_EraseStart ==
    EraseStart("er_f1", "f1", F1_ErasePrep, F1_EraseBegin(er.addr_page), "er_f1_poll")
F4_EraseStart ==
    EraseStart("er_f4", "f4", F4_ErasePrep, F4_EraseBegin(er.addr_page), "er_f4_poll")
L1_EraseStart ==
    EraseStart("er_L1", "L1", L1_ErasePrep, L1_EraseBegin(er.addr_page), "er_L1_poll")

\* one turn of stl_f1_flash_erase's do-while, and what follows the loop
F1_ErasePoll ==
    /\ pc = "er_f1_poll"
    /\ LET W1 == sl_rd32(World, FLASH_SR)
           status == rd32_ret(W1)
           i == er.i + 1
       IN IF BitAnd(status, FLASH_SR_BSY) # 0 /\ i < ERASE_POLL_LIMIT
          THEN /\ Commit(W1)
               /\ er' = [er EXCEPT !.i = i, !.status = status]
               /\ pc' = "er_f1_poll"
          ELSE /\ Commit(IF BitAnd(status, FLASH_SR_EOP) = 0
                         THEN sl_rd32(W1, FLASH_SR) ELSE W1)
               /\ er' = [er EXCEPT !.i = i, !.status = status,
                            !.ret = IF BitAnd(status, FLASH_SR_EOP) = 0 THEN 1 ELSE 0]
               /\ pc' = "er_done"
    /\ UNCHANGED <<bigendian, fw, rd, runs, id, kick, call, fv, mn, cd, ld>>

\* a polling loop with no cap on its turns; C31_ErasePollsBounded does not hold
\* of it
ErasePoll_NoCap(at, sr_addr, busy) ==
    /\ pc = at
    /\ LET W1 == sl_rd32(World, sr_addr)
           status == rd32_ret(W1)
           i == er.i + 1
       IN /\ Commit(W1)
          /\ IF BitAnd(status, busy) # 0
             THEN /\ er' = [er EXCEPT !.i = i, !.status = status]
                  /\ pc' = at
             ELSE /\ er' = [er EXCEPT !.i = i, !.status = status, !.ret = 0]
                  /\ pc' = "er_done"
    /\ UNCHANGED <<bigendian, fw, rd, runs, id, kick, call, fv, mn, cd, ld>>

\* one turn of the do-while of stl_f4_flash_erase and stl_L1_flash_erase, which
\* return 0 when their loop ends
ErasePoll(at, sr_addr, busy) ==
    /\ pc = at
    /\ LET W1 == sl_rd32(World, sr_addr)
           status == rd32_ret(W1)
           i == er.i + 1
       IN /\ Commit(W1)
          /\ IF BitAnd(status, busy) # 0 /\ i < ERASE_POLL_LIMIT
             THEN /\ er' = [er EXCEPT !.i = i, !.status = status]
                  /\ pc' = at
             ELSE /\ er' = [er EXCEPT !.i = i, !.status = status, !.ret = 0]
                  /\ pc' = "er_done"
    /\ UNCHANGED <<bigendian, fw, rd, runs, id, kick, call, fv, mn, cd, ld>>

F4_ErasePoll == ErasePoll("er_f4_poll", F4_FLASH_SR, F4_FLASH_SR_BSY)
L1_ErasePoll == ErasePoll("er_L1_poll", L15_FLASH_SR, FLASH_SR_BSY)

EraseAddrs == {MASS_ERASE, FLASH_BASE + 2063}

InitErase ==
    /\ bigendian \in BOOLEAN
    /\ \E chip \in Chips :
          /\ sl = InitSession(chip)
          /\ tgt = InitTarget(chip)
    /\ wire = <<>>
    /\ pc = "er_call"
    /\ \E a \in EraseAddrs : er = [IdleEr EXCEPT !.addr_page = a]
    /\ fw = IdleFw
    /\ rd = IdleRd
    /\ runs = <<>>
    /\ id = IdleId
    /\ kick = IdleKick
    /\ call = IdleCall
    /\ fv = IdleFv
    /\ mn = IdleMn
    /\ cd = IdleCd
    /\ ld = IdleLd

NextErase ==
    \/ stl_flash_erase_page
    \/ F1_EraseStart \/ F1_ErasePoll
    \/ F4_EraseStart \/ F4_ErasePoll
    \/ L1_EraseStart \/ L1_ErasePoll
    \/ TargetSR

SpecErase == InitErase /\ [][NextErase]_vars

\* a flash write or an erase
SpecFlash == (InitWrite \/ InitErase) /\ [][NextWrite \/ NextErase]_vars

(***************************************************************************)
(* stl_read: rd.buf is the caller's buffer, as far as it has been written. *)
(***************************************************************************)
RD_Head ==
    /\ pc = "rd_head"
    /\ IF rd.addr % 4 # 0
       THEN LET psz == 4 - (rd.addr % 4)
                W1 == stl_rd32_cmd(World, rd.addr - (rd.addr % 4), 4)
            IN /\ Commit(W1)
               /\ rd' = [rd EXCEPT
                     !.buf = BufPut(@, 0, BufTake(W1.sl.data_buf, rd.addr % 4, psz)),
                     !.offset = psz]
       ELSE UNCHANGED <<sl, tgt, wire, rd>>
    /\ pc' = "rd_block"
    /\ UNCHANGED <<bigendian, fw, er, runs, id, kick, call, fv, mn, cd, ld>>

\* one turn of the do-while
RD_Block ==
    /\ pc = "rd_block"
    /\ LET req == IF rd.size > READ_BLK_SIZE THEN READ_BLK_SIZE
                  ELSE rd.size + 3 - ((rd.size + 3) % 4)
           W1 == stl_rd32_cmd(World, rd.addr + rd.offset, req)
           xfer_size == IF rd.size % 4 # 0 THEN rd.size ELSE req
       IN /\ Commit(W1)
          /\ rd' = [rd EXCEPT
                !.buf = BufPut(@, rd.offset, BufTake(W1.sl.data_buf, 0, xfer_size)),
                !.offset = @ + xfer_size,
                !.size = @ - xfer_size,
                !.ret = rd.size - xfer_size]
          /\ pc' = IF rd.size - xfer_size > 0 THEN "rd_block" ELSE "rd_done"
    /\ UNCHANGED <<bigendian, fw, er, runs, id, kick, call, fv, mn, cd, ld>>

ReadBase == SRAM_BASE + 256

InitRead ==
    /\ bigendian \in BOOLEAN
    /\ \E chip \in Chips :
          /\ sl = InitSession(chip)
          /\ tgt = InitTarget(chip)
    /\ wire = <<>>
    /\ pc = "rd_head"
    /\ \E al \in 0..3, n \in SizesFor(READ_BLK_SIZE) :
          rd = [IdleRd EXCEPT !.addr = ReadBase + al, !.n = n, !.size = n]
    /\ fw = IdleFw
    /\ er = IdleEr
    /\ runs = <<>>
    /\ id = IdleId
    /\ kick = IdleKick
    /\ call = IdleCall
    /\ fv = IdleFv
    /\ mn = IdleMn
    /\ cd = IdleCd
    /\ ld = IdleLd

NextRead == RD_Head \/ RD_Block

SpecRead == InitRead /\ [][NextRead]_vars

(***************************************************************************)
(* stm_id_chip: read the core ID and the MCU ID-code, name the core, find  *)
(* the personality.  It is called once, on a session that stl_usb_scan has *)
(* zeroed, so sl.chip_index is 0 when it starts.                           *)
(***************************************************************************)
\* for (i = 0; arm_cores[i].core_id; i++) if (arm_cores[i].core_id == core_id) break;
RECURSIVE CoreScan(_, _)
CoreScan(core_id, i) ==
    IF arm_cores[i + 1].core_id = 0 \/ arm_cores[i + 1].core_id = core_id THEN i
    ELSE CoreScan(core_id, i + 1)

\* for (i = 0; stm_devids[i].name; i++) if (idcode == stm_devids[i].dbgmcu_idcode) ...
\* the index at which the loop breaks, or -1 when it runs to the end
RECURSIVE ChipScan(_, _)
ChipScan(idcode, i) ==
    IF i >= Len(stm_devids) THEN -1
    ELSE IF idcode = stm_devids[i + 1].dbgmcu_idcode THEN i
    ELSE ChipScan(idcode, i + 1)

ID_GetCoreId ==
    /\ pc = "id_core"
    /\ LET W1 == stlink_cmd(World, STLinkDebugReadCoreID, 0, 4)
       IN /\ Commit(W1)
          /\ id' = [id EXCEPT !.core_id = stlink_cmd_ret(W1, 4)]
    /\ pc' = "id_idcode"
    /\ UNCHANGED <<bigendian, fw, er, rd, runs, kick, call, fv, mn, cd, ld>>

ID_GetIdcode ==
    /\ pc = "id_idcode"
    /\ LET W1 == sl_rd32(World, DBGMCU_IDCODE)
           W2 == IF rd32_ret(W1) = 0 THEN sl_rd32(W1, M0_IDCODE_ADDR) ELSE W1
           idcode == rd32_ret(W2)
       IN /\ sl' = [W2.sl EXCEPT !.cpu_idcode = idcode]
          /\ tgt' = W2.tgt
          /\ wire' = W2.wire
          /\ id' = [id EXCEPT !.idcode = idcode]
    /\ pc' = "id_cores"
    /\ UNCHANGED <<bigendian, fw, er, rd, runs, kick, call, fv, mn, cd, ld>>

ID_NameCore ==
    /\ pc = "id_cores"
    /\ LET i == CoreScan(id.core_id, 0)
       IN id' = [id EXCEPT !.i = i,
                    !.warnings = IF arm_cores[i + 1].core_id = 0
                                 THEN @ \cup {"core ID did not match"} ELSE @]
    /\ pc' = "id_chips"
    /\ UNCHANGED <<bigendian, sl, tgt, wire, fw, er, rd, runs, kick, call, fv, mn, cd, ld>>

ID_FindChip ==
    /\ pc = "id_chips"
    /\ LET i == ChipScan(id.idcode, 0)
       IN /\ sl' = IF i >= 0 THEN [sl EXCEPT !.chip_index = i] ELSE sl
          /\ id' = [id EXCEPT !.i = IF i >= 0 THEN i ELSE Len(stm_devids), !.ret = 0]
    /\ pc' = "id_done"
    /\ UNCHANGED <<bigendian, tgt, wire, fw, er, rd, runs, kick, call, fv, mn, cd, ld>>

\* the core IDs and ID-codes a target is tried with: those of the table,
\* one of no record, and 0
TargetCoreIds == {196154487, 463475831, 731911287, 1000342647, 0}
TargetIdcodes == {0, 268436480, 537093136, 268526640, 268526608, 270033942,
                  536896529, 536896576, 305419896}
TargetM0Idcodes == {0, 536896576, 305419896}

\* the four bytes of a register, least significant first
RegBytes(v) == <<ByteOf(v, 0), ByteOf(v, 1), ByteOf(v, 2), ByteOf(v, 3)>>

\* the target's memory with its two ID-code registers; a register that
\* reads 0 needs no store
IdMem(c1, c2) ==
    (IF c1 = 0 THEN <<>> ELSE << [a |-> DBGMCU_IDCODE, b |-> RegBytes(c1)] >>)
    \o (IF c2 = 0 THEN <<>> ELSE << [a |-> M0_IDCODE_ADDR, b |-> RegBytes(c2)] >>)

InitIdent ==
    /\ bigendian \in BOOLEAN
    /\ sl = InitSession(0)
    /\ \E core \in TargetCoreIds, c1 \in TargetIdcodes, c2 \in TargetM0Idcodes :
          tgt = [InitTarget(0) EXCEPT !.core_id = core, !.mem = IdMem(c1, c2)]
    /\ wire = <<>>
    /\ pc = "id_core"
    /\ fw = IdleFw
    /\ er = IdleEr
    /\ rd = IdleRd
    /\ runs = <<>>
    /\ id = IdleId
    /\ kick = IdleKick
    /\ call = IdleCall
    /\ fv = IdleFv
    /\ mn = IdleMn
    /\ cd = IdleCd
    /\ ld = IdleLd

NextIdent == ID_GetCoreId \/ ID_GetIdcode \/ ID_NameCore \/ ID_FindChip

SpecIdent == InitIdent /\ [][NextIdent]_vars

(***************************************************************************)
(* stlink_fverify: read the file block by block and compare each block     *)
(* with what stl_read brings from the target at the running address.       *)
(* read() returns what is left of the file up to sizeof filebuf, or, from  *)
(* a source that delivers less at a time, a short count.                   *)
(***************************************************************************)
SIZEOF_FILEBUF == 131072            \* char filebuf[128*1024]
ShortReads == {READ_BLK_SIZE}

\* read(fd, filebuf, sizeof filebuf)
FV_ReadFile ==
    /\ pc = "fv_read"
    /\ LET left == Len(fv.file) - fv.pos
       IN \E k \in {Min(left, SIZEOF_FILEBUF)} \cup {c \in ShortReads : c < left} :
             IF k > 0
             THEN /\ fv' = [fv EXCEPT !.file_rdsize = k]
                  /\ rd' = [IdleRd EXCEPT !.addr = fv.addr, !.n = k, !.size = k]
                  /\ pc' = "rd_head"
             ELSE /\ fv' = [fv EXCEPT !.file_rdsize = k, !.ret = 0]
                  /\ rd' = rd
                  /\ pc' = "fv_done"
    /\ UNCHANGED <<bigendian, sl, tgt, wire, fw, er, runs, id, kick, call, mn, cd, ld>>

\* stl_read has returned: the size check and the memcmp
FV_Compare ==
    /\ pc = "rd_done"
    /\ LET flash_rdsize == rd.ret
           filebuf == SubSeq(fv.file, fv.pos + 1, fv.pos + fv.file_rdsize)
           flashbuf == BufTake(rd.buf, 0, fv.file_rdsize)
           blocks == Append(fv.blocks, [addr |-> fv.addr, off |-> fv.pos,
                                        len |-> fv.file_rdsize])
       IN IF (flash_rdsize # 0 /\ flash_rdsize # fv.file_rdsize)
             \/ filebuf # flashbuf
          THEN /\ fv' = [fv EXCEPT !.blocks = blocks, !.ret = -1]
               /\ pc' = "fv_done"
          ELSE /\ fv' = [fv EXCEPT !.blocks = blocks, !.addr = @ + fv.file_rdsize,
                                   !.pos = @ + fv.file_rdsize]
               /\ pc' = "fv_read"
    /\ UNCHANGED <<bigendian, sl, tgt, wire, fw, er, rd, runs, id, kick, call, mn, cd, ld>>

\* the programmed flash: n bytes of the data at the flash base
FlashImage(n) == [k \in 1..n |-> SrcByte(k - 1)]

\* the files verified against it: the image itself, and the image with the
\* byte at one place changed
FileSizes == SizesFor(READ_BLK_SIZE)
ChangedAt(n) == {0, 1, n} \cap (0..n)
FileOf(n, d) ==
    [k \in 1..n |-> IF k = d THEN (SrcByte(k - 1) + 1) % 256 ELSE SrcByte(k - 1)]

InitVerify ==
    /\ bigendian \in BOOLEAN
    /\ sl = InitSession(0)
    /\ wire = <<>>
    /\ pc = "fv_read"
    /\ \E n \in FileSizes, d \in 0..(MaxBlocks * READ_BLK_SIZE + 1) :
          /\ d \in ChangedAt(n)
          /\ tgt = [InitTarget(0) EXCEPT
                       !.mem = << [a |-> FLASH_BASE, b |-> FlashImage(n)] >>]
          /\ fv = [IdleFv EXCEPT !.file = FileOf(n, d),
                                 !.addr = stm_devids[1].flash_base]
    /\ mn = IdleMn
    /\ cd = IdleCd
    /\ ld = IdleLd
    /\ fw = IdleFw
    /\ er = IdleEr
    /\ rd = IdleRd
    /\ runs = <<>>
    /\ id = IdleId
    /\ kick = IdleKick
    /\ call = IdleCall

NextVerify == FV_ReadFile \/ RD_Head \/ RD_Block \/ FV_Compare

SpecVerify == InitVerify /\ [][NextVerify]_vars

(***************************************************************************)
(* stl_kick_mode: bring a probe that sits in DFU mode back to a usable     *)
(* mode.  The probe replies to the mode query with its mode; after the DFU *)
(* exit it drops off the bus, and each reopen finds it absent, or present  *)
(* with a core status of running, halted or neither.                       *)
(***************************************************************************)
\* the session as st_gcmd hands it to stl_do_cmd
st_gcmd_frame(W, st_cmd0, st_cmd1, resp_len) ==
    [W EXCEPT
        !.sl.cmd_buf = CmdPut(@, 0, <<st_cmd0, st_cmd1>>),
        !.sl.cmd_len = 2,
        !.sl.data_len = resp_len,
        !.sl.xfer_dir = STLinkParamFromDev]

st_gcmd(W, st_cmd0, st_cmd1, resp_len) ==
    stl_do_cmd(st_gcmd_frame(W, st_cmd0, st_cmd1, resp_len))

\* stl_mode: st_gcmd(sl, STLinkGetCurrentMode, 0, 2), *(uint16_t *)sl->data_buf
stl_mode(W) == st_gcmd(W, STLinkGetCurrentMode, 0, 2)
stl_mode_ret(W) == HostLoad16(BufTake(W.sl.data_buf, 0, 2))

stl_exit_dfu_mode(W) == st_gcmd(W, STLinkDFUCommand, STLinkDFUModeExit, 0)
stl_enter_SWD_mode(W) == stlink_cmd(W, STLinkDebugEnterMode, STLinkDebugEnterSWD, 0)

KM_Mode ==
    /\ pc = "km_mode"
    /\ LET W1 == stl_mode(World)
           stlink_mode == stl_mode_ret(W1)
       IN /\ Commit(W1)
          /\ IF stlink_mode = STLinkDevMode_Debug \/ stlink_mode = STLinkDevMode_Mass
             THEN /\ kick' = [kick EXCEPT !.stlink_mode = stlink_mode, !.ret = 0]
                  /\ pc' = "km_done"
             ELSE /\ kick' = [kick EXCEPT !.stlink_mode = stlink_mode]
                  /\ pc' = "km_exit_dfu"
    /\ UNCHANGED <<bigendian, fw, er, rd, runs, id, call, fv, mn, cd, ld>>

KM_ExitDfu ==
    /\ pc = "km_exit_dfu"
    /\ Commit(stl_exit_dfu_mode(World))
    /\ kick' = [kick EXCEPT !.i = 0, !.fd = -1]
    /\ pc' = "km_reopen"
    /\ UNCHANGED <<bigendian, fw, er, rd, runs, id, call, fv, mn, cd, ld>>

\* one round of the reopen loop; present: open() finds the device, and
\* core is then the state the probe reports
KM_Reopen ==
    /\ pc = "km_reopen"
    /\ kick.i < KICK_ATTEMPTS
    /\ \E present \in BOOLEAN, core \in {"running", "halted", "unready"} :
          IF present
          THEN LET W0 == [World EXCEPT !.tgt.core = core]
                   W1 == stl_get_status(stl_enter_SWD_mode(W0))
                   core_state == stlink_cmd_ret(W1, 2)
               IN /\ Commit(W1)
                  /\ IF core_state = STLINK_CORE_RUNNING
                        \/ core_state = STLINK_CORE_HALTED
                     THEN /\ kick' = [kick EXCEPT !.core_state = core_state,
                                                  !.fd = 3, !.ret = 0]
                          /\ pc' = "km_done"
                     ELSE /\ kick' = [kick EXCEPT !.core_state = core_state,
                                                  !.fd = -1, !.i = @ + 1]
                          /\ pc' = "km_reopen"
          ELSE /\ core = "unready"
               /\ kick' = [kick EXCEPT !.fd = -1, !.i = @ + 1]
               /\ pc' = "km_reopen"
               /\ UNCHANGED <<sl, tgt, wire>>
    /\ UNCHANGED <<bigendian, fw, er, rd, runs, id, call, fv, mn, cd, ld>>

KM_GiveUp ==
    /\ pc = "km_reopen"
    /\ kick.i >= KICK_ATTEMPTS
    /\ kick' = [kick EXCEPT !.ret = -1]
    /\ pc' = "km_done"
    /\ UNCHANGED <<bigendian, sl, tgt, wire, fw, er, rd, runs, id, call, fv, mn, cd, ld>>

\* the modes a probe may report
ProbeModes == {STLinkDevMode_DFU, STLinkDevMode_Mass, STLinkDevMode_Debug,
               STLinkDevMode_Bootloader}

InitKick ==
    /\ bigendian \in BOOLEAN
    /\ sl = InitSession(0)
    /\ \E m \in ProbeModes : tgt = [InitTarget(0) EXCEPT !.mode = m]
    /\ wire = <<>>
    /\ pc = "km_mode"
    /\ fw = IdleFw
    /\ er = IdleEr
    /\ rd = IdleRd
    /\ runs = <<>>
    /\ id = IdleId
    /\ kick = [IdleKick EXCEPT !.fd = 3]
    /\ call = IdleCall
    /\ fv = IdleFv
    /\ mn = IdleMn
    /\ cd = IdleCd
    /\ ld = IdleLd

NextKick == KM_Mode \/ KM_ExitDfu \/ KM_Reopen \/ KM_GiveUp

SpecKick == InitKick /\ [][NextKick]_vars

(***************************************************************************)
(* stl_do_cmd at the level of its USB transfers, under one primitive       *)
(* called on its own.  Each libusb_bulk_transfer ends in one of four ways; *)
(* a transfer that fails delivers nothing and one that is short delivers   *)
(* all but its last byte.                                                  *)
(***************************************************************************)
USB_PIPE_OUT == 2
USB_PIPE_IN == 129
Outcomes == {"ok", "error", "timeout", "short"}

\* what libusb_bulk_transfer returns: 0, LIBUSB_ERROR_IO, LIBUSB_ERROR_TIMEOUT;
\* a short transfer returns 0 and reports the shorter length
UsbRet(o) == IF o = "error" THEN -1 ELSE IF o = "timeout" THEN -7 ELSE 0
UsbActual(o, len) ==
    IF o = "ok" THEN len ELSE IF o = "short" THEN Max(len - 1, 0) ELSE 0

\* the lengths stl_wr32_cmd is called with
MaxWrLen == 70
WrLens == 0..MaxWrLen

\* the operations called and their two arguments
Calls ==
    {[op |-> "stlink_cmd", a |-> STLinkDebugGetStatus, b |-> 2],
     [op |-> "stlink_cmd", a |-> STLinkDebugReadCoreID, b |-> 4],
     [op |-> "stlink_cmd", a |-> STLinkDebugEnterMode, b |-> 0],
     [op |-> "stl_mode", a |-> 0, b |-> 2],
     [op |-> "sl_rd32", a |-> FLASH_SR, b |-> 4],
     [op |-> "sl_wr32", a |-> SRAM_BASE, b |-> 4]}
    \cup {[op |-> "stl_wr32_cmd", a |-> SRAM_BASE, b |-> n] : n \in WrLens}
    \cup {[op |-> "stl_rd32_cmd", a |-> SRAM_BASE + 256 + k, b |-> n] :
              k \in 0..3, n \in {1, 4, 6}}

\* the session as the operation hands it to stl_do_cmd
CallFrame(W, c) ==
    IF c.op = "stlink_cmd"
    THEN stlink_cmd_frame(W, c.a, IF c.a = STLinkDebugEnterMode
                                  THEN STLinkDebugEnterSWD ELSE 0, c.b)
    ELSE IF c.op = "stl_mode" THEN st_gcmd_frame(W, STLinkGetCurrentMode, 0, 2)
    ELSE IF c.op = "sl_rd32" THEN stl_rd32_frame(W, c.a, 4)
    ELSE IF c.op = "stl_rd32_cmd" THEN stl_rd32_frame(W, c.a, c.b)
    ELSE IF c.op = "sl_wr32"
    THEN stl_wr32_frame([W EXCEPT !.sl.data_buf = BufPut(@, 0, write_uint32(129))],
                        c.a, 4)
    ELSE stl_wr32_frame(W, c.a, c.b)

\* the operation sets up its command; stl_wr32_cmd returns at once for a
\* length it rejects
CALL_Frame ==
    /\ pc = "call"
    /\ Commit(CallFrame(World, call))
    /\ IF call.op = "stl_wr32_cmd" /\ stl_wr32_rejects(call.b)
       THEN call' = [call EXCEPT !.ret = -1] /\ pc' = "call_done"
       ELSE call' = call /\ pc' = "dc_command"
    /\ UNCHANGED <<bigendian, fw, er, rd, runs, id, kick, fv, mn, cd, ld>>

\* stl_do_cmd: the command phase
DC_Command ==
    /\ pc = "dc_command"
    /\ \E o \in Outcomes :
          call' = [call EXCEPT
              !.usb = Append(@, [phase |-> "command", pipe |-> USB_PIPE_OUT,
                                 len |-> sl.cmd_len, outcome |-> o,
                                 actual |-> UsbActual(o, sl.cmd_len)]),
              !.ret = UsbRet(o)]
    /\ pc' = "dc_data"
    /\ UNCHANGED <<bigendian, sl, tgt, wire, fw, er, rd, runs, id, kick, fv, mn, cd, ld>>

\* the command reached the probe
CommandSent == call.usb # <<>> /\ call.usb[1].outcome = "ok"

\* the transfer stl_do_cmd has prepared, as the wire log keeps it
FrameEntry ==
    [cmd |-> sl.cmd_buf, cmd_len |-> sl.cmd_len, dir |-> sl.xfer_dir,
     data_len |-> sl.data_len,
     data |-> IF sl.xfer_dir = STLinkParamToDev
              THEN BufTake(sl.data_buf, 0, sl.data_len) ELSE <<>>,
     rep |-> 1]

\* a data phase that is always an IN transfer; C24_CommandThenData does not
\* hold of it
DC_Data_AlwaysIn ==
    /\ pc = "dc_data"
    /\ \E o \in Outcomes :
          call' = [call EXCEPT
              !.usb = Append(@, [phase |-> "data", pipe |-> USB_PIPE_IN,
                                 len |-> sl.data_len, outcome |-> o,
                                 actual |-> UsbActual(o, sl.data_len)]),
              !.ret = UsbRet(o)]
    /\ wire' = WireLog(wire, FrameEntry)
    /\ pc' = "call_return"
    /\ UNCHANGED <<bigendian, sl, tgt, fw, er, rd, runs, id, kick, fv, mn, cd, ld>>

\* stl_do_cmd: the data phase, out or in, or none
DC_Data ==
    /\ pc = "dc_data"
    /\ IF sl.xfer_dir = STLinkParamToDev
       THEN \E o \in Outcomes :
              /\ call' = [call EXCEPT
                     !.usb = Append(@, [phase |-> "data", pipe |-> USB_PIPE_OUT,
                                        len |-> sl.data_len, outcome |-> o,
                                        actual |-> UsbActual(o, sl.data_len)]),
                     !.ret = UsbRet(o)]
              /\ tgt' = IF CommandSent /\ o = "ok" THEN TargetExec(tgt, FrameEntry)
                        ELSE tgt
              /\ sl' = sl
       ELSE IF sl.data_len # 0
       THEN \E o \in Outcomes :
              LET reply == IF CommandSent THEN TargetReply(tgt, FrameEntry) ELSE <<>>
                  got == SubSeq(reply, 1, Min(Len(reply), UsbActual(o, sl.data_len)))
              IN /\ call' = [call EXCEPT
                        !.usb = Append(@, [phase |-> "data", pipe |-> USB_PIPE_IN,
                                           len |-> sl.data_len, outcome |-> o,
                                           actual |-> Len(got)]),
                        !.ret = UsbRet(o)]
                 /\ sl' = [sl EXCEPT !.data_buf = BufPut(@, 0, got)]
                 /\ tgt' = IF CommandSent THEN TargetExec(tgt, FrameEntry) ELSE tgt
       ELSE /\ call' = call
            /\ sl' = sl
            /\ tgt' = IF CommandSent THEN TargetExec(tgt, FrameEntry) ELSE tgt
    /\ wire' = WireLog(wire, FrameEntry)
    /\ pc' = "call_return"
    /\ UNCHANGED <<bigendian, fw, er, rd, runs, id, kick, fv, mn, cd, ld>>

\* what the operation returns to its caller after stl_do_cmd
CallResult(c, s) ==
    IF c.op = "stlink_cmd" THEN stlink_cmd_ret([sl |-> s], c.b)
    ELSE IF c.op = "stl_mode" THEN stl_mode_ret([sl |-> s])
    ELSE IF c.op \in {"sl_rd32", "stl_rd32_cmd"} THEN rd32_ret([sl |-> s])
    ELSE 0

CALL_Return ==
    /\ pc = "call_return"
    /\ call' = [call EXCEPT !.ret = CallResult(call, sl)]
    /\ pc' = "call_done"
    /\ UNCHANGED <<bigendian, sl, tgt, wire, fw, er, rd, runs, id, kick, fv, mn, cd, ld>>

InitCmd ==
    /\ bigendian \in BOOLEAN
    /\ sl = [InitSession(0) EXCEPT !.data_buf = [k \in 1..MaxWrLen |-> k]]
    /\ \E core \in {"running", "halted"} :
          tgt = [InitTarget(0) EXCEPT !.core = core, !.core_id = arm_cores[2].core_id,
                                      !.sr = FLASH_SR_EOP]
    /\ wire = <<>>
    /\ pc = "call"
    /\ fw = IdleFw
    /\ er = IdleEr
    /\ rd = IdleRd
    /\ runs = <<>>
    /\ id = IdleId
    /\ kick = IdleKick
    /\ \E c \in Calls : call = [IdleCall EXCEPT !.op = c.op, !.a = c.a, !.b = c.b]
    /\ fv = IdleFv
    /\ mn = IdleMn
    /\ cd = IdleCd
    /\ ld = IdleLd

NextCmd == CALL_Frame \/ DC_Command \/ DC_Data \/ CALL_Return

SpecCmd == InitCmd /\ [][NextCmd]_vars

(***************************************************************************)
(* Properties.  The helpers below read the wire log and the records of the *)
(* stl_loader calls.                                                       *)
(***************************************************************************)
\* the 32-bit value a memory-write command carries
WrittenWord(e) == LE32(SubSeq(e.data, 1, 4))

\* e is a four-byte memory write of val to addr
IsWr32(e, addr, val) ==
    /\ IsMemWrite(e)
    /\ CmdAddr(e) = addr
    /\ Len(e.data) = 4
    /\ WrittenWord(e) = val

CeilDiv(n, d) == (n + d - 1) \div d

\* the bytes the caller asked to be written
FwData == [k \in 1..fw.buf_len |-> SrcByte(k - 1)]

\* the call has returned
FwReturned == fw.exit # "none"

\* the number of wire entries made when the core was last started
LastRunIndex ==
    CHOOSE i \in 0..Len(wire) :
        /\ i > 0 => IsDebugCmd(wire[i], STLinkDebugRunCore)
        /\ \A j \in (i + 1)..Len(wire) : ~IsDebugCmd(wire[j], STLinkDebugRunCore)

\* C1: on erased flash, a stl_flash_write that returns 0 has left exactly the
\* caller's |B| bytes in flash at A, so that a read-back and a verify of B
\* succeed, for every length |B| >= 1.
C1_SuccessMeansWritten ==
    (FwReturned /\ fw.ret = 0) =>
        MemBytes(tgt, fw.flash_addr, fw.buf_len) = FwData

\* C2: a write that gave up polling because the target never reported halted
\* returns a result different from 0, the result of a successful write.
C2_TimeoutReturnsError ==
    fw.exit = "timeout" => fw.ret # 0

\* C3: for every chunk, the first transfer of stl_loader is one 32-bit
\* memory write (sub-opcode 0x08) to the SRAM base of length image size plus
\* chunk size, carrying that many bytes, and it is on the wire before the
\* register write and the run command that start the core.
C3_UploadIsOneWrite32 ==
    \A k \in 1..Len(runs) :
        LET e == wire[runs[k].before + 1]
            len == SizeofCode(LoaderCode(sl.chip_index)) + runs[k].size
        IN /\ IsDebugCmd(e, STLinkDebugWriteMem32bit)
           /\ e.rep = 1
           /\ CmdAddr(e) = SRAM_BASE
           /\ CmdLen(e) = len
           /\ Len(e.data) = len
           /\ Len(wire) >= runs[k].before + 3
           /\ IsDebugCmd(wire[runs[k].before + 2], STLinkDebugWriteReg)
           /\ IsDebugCmd(wire[runs[k].before + 3], STLinkDebugRunCore)

\* C4: stl_read has written exactly n bytes to the caller's buffer, and they
\* are the bytes of target memory from addr on.
C4_ReadDeliversExactly ==
    pc = "rd_done" => rd.buf = MemBytes(tgt, rd.addr, rd.n)

\* the size the k-th chunk of an n-byte write must have: at most a block, the
\* remainder rounded up to even
ChunkSizeOf(n, k) ==
    LET remaining == n - FLASH_WR_BLK_SIZE * (k - 1)
    IN IF remaining > FLASH_WR_BLK_SIZE THEN FLASH_WR_BLK_SIZE
       ELSE remaining + (remaining % 2)

RECURSIVE SizesBefore(_)
SizesBefore(k) == IF k <= 1 THEN 0 ELSE SizesBefore(k - 1) + runs[k - 1].size

\* every loader run so far has the size, the flash address and the buffer
\* offset of its chunk
ChunksInOrder ==
    \A k \in 1..Len(runs) :
        /\ runs[k].size = ChunkSizeOf(fw.buf_len, k)
        /\ runs[k].size <= FLASH_WR_BLK_SIZE
        /\ runs[k].size % 2 = 0
        /\ runs[k].size > fw.buf_len - FLASH_WR_BLK_SIZE * (k - 1)
               => /\ k = CeilDiv(fw.buf_len, FLASH_WR_BLK_SIZE)
                  /\ fw.buf_len % 2 = 1
        /\ runs[k].flash_addr = fw.flash_addr + SizesBefore(k)
        /\ runs[k].buf_offset = SizesBefore(k)

\* C5 as stated: a stl_flash_write of n bytes runs the loader exactly
\* ceil(n/2048) times, chunk after chunk.
C5_AlwaysAllChunks ==
    /\ ChunksInOrder
    /\ FwReturned => Len(runs) = CeilDiv(fw.buf_len, FLASH_WR_BLK_SIZE)

\* C5, amended: the chunks are cut as stated; the loader runs exactly
\* ceil(n/2048) times when every chunk is seen halted, and a write that gives
\* up polling has run it at least once and at most that many times.
C5_ChunksUntilTimeout ==
    /\ ChunksInOrder
    /\ fw.exit = "normal" => Len(runs) = CeilDiv(fw.buf_len, FLASH_WR_BLK_SIZE)
    /\ fw.exit = "timeout" =>
           /\ Len(runs) >= 1
           /\ Len(runs) <= CeilDiv(fw.buf_len, FLASH_WR_BLK_SIZE)

\* a completed write of an odd length above one block: two chunks, the last
\* one rounded up
C5_Witness ==
    /\ fw.exit = "normal"
    /\ fw.buf_len > FLASH_WR_BLK_SIZE
    /\ fw.buf_len % 2 = 1
    /\ Len(runs) = 2
    /\ runs[2].size = 2

\* C6: every uploaded image holds the loader's instructions, then the four
\* little-endian words ctrl_base, src_addr = SRAM base + prog_len, dst_addr
\* and hword_count = chunk bytes / 2, then the chunk payload at prog_len.
C6_ImageLayout ==
    \A k \in 1..Len(runs) :
        LET e == wire[runs[k].before + 1]
            code == LoaderCode(sl.chip_index)
            prog_len == SizeofCode(code)
            word(j) == LE32(SubSeq(e.data, prog_len - 16 + 4 * j + 1,
                                   prog_len - 16 + 4 * j + 4))
        IN IsMemWrite(e) =>
            /\ Len(e.data) = prog_len + runs[k].size
            /\ SubSeq(e.data, 1, prog_len - 16)
                   = SubSeq(ThumbBytes(code), 1, prog_len - 16)
            /\ word(0) = LoaderCtrlBase(sl.chip_index, runs[k].flash_addr)
            /\ word(1) = SRAM_BASE + prog_len
            /\ word(2) = runs[k].flash_addr
            /\ word(3) = runs[k].size \div 2
            /\ \A i \in 1..runs[k].size :
                   e.data[prog_len + i] = FwBufByte(runs[k].buf_offset + i - 1)

\* C7: before the first loader run, KEY1 and then KEY2 have been written to
\* the KEYR (base + 4) of the controller whose base is in the parameter block.
C7_UnlockSameController ==
    Len(runs) >= 1 =>
        LET keyr == LoaderCtrlBase(sl.chip_index, runs[1].flash_addr) + 4
        IN \E i, j \in 1..runs[1].before :
              /\ i < j
              /\ IsWr32(wire[i], keyr, FLASH_KEY1)
              /\ IsWr32(wire[j], keyr, FLASH_KEY2)

\* the control registers of the chip's flash controller
ChipCRs(chip) ==
    IF HasCap(chip, ChipCapF4Flash) THEN {F4_FLASH_CR}
    ELSE IF HasCap(chip, ChipCapL15Flash) THEN {L15_FLASH_PECR}
    ELSE {FLASH_CR, FLASH_BANK2_REGS + 16}

\* C8: a write whose every chunk was seen halted ends with the write of LOCK
\* (0x80) to FLASH_CR, made after the last loader run and followed by no
\* other memory write, whatever the status read; and an erase driver writes
\* no value with the LOCK bit to a control register of the chip's flash
\* controller, nor the writer's re-lock word to FLASH_CR.
C8_RelockAfterLastChunk ==
    /\ fw.exit = "normal" =>
          \E i \in 1..Len(wire) :
              /\ IsWr32(wire[i], FLASH_CR, FLASH_CR_LOCK)
              /\ i > LastRunIndex
              /\ Len(runs) = CeilDiv(fw.buf_len, FLASH_WR_BLK_SIZE)
              /\ \A j \in (i + 1)..Len(wire) : ~IsMemWrite(wire[j])
    /\ er.driver # "none" =>
          \A i \in 1..Len(wire) :
              /\ IsMemWrite(wire[i]) /\ CmdAddr(wire[i]) \in ChipCRs(sl.chip_index)
                    => BitAnd(WrittenWord(wire[i]), FLASH_CR_LOCK) = 0
              /\ ~IsWr32(wire[i], FLASH_CR, FLASH_CR_LOCK)

\* a completed write whose status read reported an error and which re-locked
C8_Witness ==
    /\ fw.exit = "normal"
    /\ fw.ret # 0
    /\ IsWr32(wire[Len(wire)], FLASH_CR, FLASH_CR_LOCK)

\* the busy bit of the chip's status register
BusyBit(chip) ==
    IF HasCap(chip, ChipCapF4Flash) THEN F4_FLASH_SR_BSY ELSE FLASH_SR_BSY

\* C9: an erase whose last polled status, at the iteration cap, still has
\* BSY set returns a failure; on F1 so does one whose last polled status has
\* no EOP.
C9_EraseReportsBusy ==
    pc = "er_done" =>
        /\ (er.i = ERASE_POLL_LIMIT
              /\ BitAnd(tgt.sr, BusyBit(sl.chip_index)) # 0) => er.ret # 0
        /\ (er.driver = "f1" /\ BitAnd(tgt.sr, FLASH_SR_EOP) = 0) => er.ret # 0

\* a memory write of one of the unlock keys
IsKeyWrite(e) ==
    /\ IsMemWrite(e)
    /\ WrittenWord(e) \in {FLASH_KEY1, FLASH_KEY2, L15_FLASH_PEKEY1,
                           L15_FLASH_PEKEY2, L15_FLASH_PRGKEY1, L15_FLASH_PRGKEY2}

\* among the first n wire entries there is a write to the chip's own status
\* register that comes after every key write
ClearsOwnSR(n) ==
    \E i \in 1..n :
        /\ IsMemWrite(wire[i])
        /\ CmdAddr(wire[i]) = ChipSR(sl.chip_index)
        /\ \A j \in 1..n : IsKeyWrite(wire[j]) => j < i

\* C10: a write has cleared the status register of the chip's family before
\* its first loader run, and an erase before its first erase-start write,
\* both after the unlock keys.
C10_ClearsFamilySR ==
    /\ Len(runs) >= 1 => ClearsOwnSR(runs[1].before)
    /\ er.driver # "none" => ClearsOwnSR(er.nprep)

\* the controller base the parameter block of a chunk must name
CtrlBaseFor(chip, dst) ==
    IF HasCap(chip, ChipCapF4Flash) THEN F4_FLASH_REGS
    ELSE IF stm_devids[chip + 1].flash_size > 256 * 1024 /\ dst >= UPPER_BANK_ADDR
         THEN FLASH_BANK2_REGS
    ELSE FLASH_REGS_ADDR

\* the ctrl_base word of the image uploaded for the k-th loader call
UploadedCtrlBase(k) ==
    LET e == wire[runs[k].before + 1]
        prog_len == SizeofCode(LoaderCode(sl.chip_index))
    IN LE32(SubSeq(e.data, prog_len - 15, prog_len - 12))

\* C11: the ctrl_base word of a chunk's parameter block is 0x40022040 exactly
\* when the personality is not F4, its flash is larger than 256 KB and the
\* chunk's own destination is >= 0x08080000; otherwise it is 0x40022000, or
\* 0x40023C00 for an F4.  It is so in the parameter block the host has built
\* for the latest chunk and, from a little-endian host, in every uploaded image.
C11_CtrlBasePerChunk ==
    /\ Len(runs) >= 1 =>
          LET prog_len == SizeofCode(LoaderCode(sl.chip_index))
          IN HostLoad32(BufTake(sl.data_buf, prog_len - 16, 4))
                 = CtrlBaseFor(sl.chip_index, runs[Len(runs)].flash_addr)
    /\ \A k \in 1..Len(runs) :
          (~bigendian /\ IsMemWrite(wire[runs[k].before + 1])) =>
              UploadedCtrlBase(k) = CtrlBaseFor(sl.chip_index, runs[k].flash_addr)

\* a write across the bank boundary: the first chunk names the first bank's
\* controller, the second chunk the second bank's
C11_Witness ==
    /\ Len(runs) = 2
    /\ IsMemWrite(wire[runs[2].before + 1])
    /\ UploadedCtrlBase(1) = FLASH_REGS_ADDR
    /\ UploadedCtrlBase(2) = FLASH_BANK2_REGS

\* the first Len(writes) transfers are the four-byte writes of writes, in
\* order, and every later transfer is a read of the status register at sr
WritesThenPolls(writes, sr) ==
    /\ Len(wire) >= Len(writes)
    /\ \A j \in 1..Len(writes) :
           IsWr32(wire[j], writes[j][1], writes[j][2]) /\ wire[j].rep = 1
    /\ \A j \in (Len(writes) + 1)..Len(wire) :
           IsDebugCmd(wire[j], STLinkDebugReadMem32bit) /\ CmdAddr(wire[j]) = sr

\* C12: an F1 page erase at P writes KEY1 and KEY2 to FLASH_KEYR, 0x34 to
\* FLASH_SR, P to FLASH_AR, PER and then STRT|PER to FLASH_CR, in this order
\* and nothing else; it reads FLASH_SR only after the STRT write; and it
\* returns success exactly when the last status polled has EOP set.
C12_F1PageEraseSequence ==
    (er.driver = "f1" /\ er.addr_page # MASS_ERASE) =>
        /\ WritesThenPolls(<< <<FLASH_KEYR, FLASH_KEY1>>, <<FLASH_KEYR, FLASH_KEY2>>,
                              <<FLASH_SR, 52>>, <<FLASH_AR, er.addr_page>>,
                              <<FLASH_CR, FLASH_CR_PER>>,
                              <<FLASH_CR, FLASH_CR_STRT + FLASH_CR_PER>> >>,
                           FLASH_SR)
        /\ pc = "er_done" => (er.ret = 0 <=> BitAnd(tgt.sr, FLASH_SR_EOP) # 0)

\* the driver the capability flags of a personality select
DriverFor(chip) ==
    IF HasCap(chip, ChipCapF4Flash) THEN "f4"
    ELSE IF HasCap(chip, ChipCapL15Flash) THEN "L1"
    ELSE "f1"

\* the two writes that start a mass erase in each family
MassEraseWrites(driver) ==
    IF driver = "L1" THEN << <<L15_FLASH_OBR, 1>>, <<L15_FLASH_OBR, 170>> >>
    ELSE IF driver = "f4"
         THEN << <<F4_FLASH_CR, FLASH_CR_MER>>,
                 <<F4_FLASH_CR, F4_FLASH_CR_STRT + FLASH_CR_MER>> >>
    ELSE << <<FLASH_CR, FLASH_CR_MER>>, <<FLASH_CR, FLASH_CR_STRT + FLASH_CR_MER>> >>

\* a write that belongs to a mass erase: MER in a control register, or the
\* L1 option byte register
IsMassEraseWrite(e) ==
    /\ IsMemWrite(e)
    /\ \/ CmdAddr(e) = L15_FLASH_OBR
       \/ /\ CmdAddr(e) \in {FLASH_CR, F4_FLASH_CR}
          /\ BitAnd(WrittenWord(e), FLASH_CR_MER) # 0

\* a write that belongs to a page or sector erase: the address register, or
\* PER (F1) / SER (F4), both bit 1, in a control register
IsPageEraseWrite(e) ==
    /\ IsMemWrite(e)
    /\ \/ CmdAddr(e) = FLASH_AR
       \/ /\ CmdAddr(e) \in {FLASH_CR, F4_FLASH_CR}
          /\ BitAnd(WrittenWord(e), FLASH_CR_PER) # 0

\* C13: stl_flash_erase_page runs the driver the capability flags select (F4
\* first, then L1, else F1).  With the address 0xA11 the writes after the
\* unlock are the two mass-erase writes of the family, 0xA11 is written
\* nowhere and no page or sector erase write follows the unlock; with any
\* other address the page or sector path is taken and no mass-erase write
\* follows the unlock.
C13_SentinelMeansMassErase ==
    er.driver # "none" =>
        /\ er.driver = DriverFor(sl.chip_index)
        /\ LET ws == SelectSeq(wire, IsMemWrite)
               begin == SubSeq(ws, er.nprep + 1, Len(ws))
               mass == MassEraseWrites(er.driver)
           IN IF er.addr_page = MASS_ERASE
              THEN /\ Len(begin) = 2
                   /\ IsWr32(begin[1], mass[1][1], mass[1][2])
                   /\ IsWr32(begin[2], mass[2][1], mass[2][2])
                   /\ \A j \in 1..Len(begin) : ~IsPageEraseWrite(begin[j])
                   /\ \A j \in 1..Len(ws) : WrittenWord(ws[j]) # MASS_ERASE
              ELSE /\ \E j \in 1..Len(begin) : IsPageEraseWrite(begin[j])
                   /\ \A j \in 1..Len(begin) : ~IsMassEraseWrite(begin[j])

\* a finished mass erase on the L1, started by the two option byte writes
C13_Witness ==
    /\ pc = "er_done"
    /\ er.addr_page = MASS_ERASE
    /\ er.driver = "L1"
    /\ \E j \in 1..Len(wire) : IsWr32(wire[j], L15_FLASH_OBR, 170)

\* e sets the register reg of the core to val
IsWriteReg(e, reg, val) ==
    /\ IsDebugCmd(e, STLinkDebugWriteReg)
    /\ e.cmd[3] = reg
    /\ LE32(SubSeq(e.cmd, 4, 7)) = val

\* the last transfer was a status poll and its reply said halted
ObservedHalted ==
    /\ Len(wire) >= 1
    /\ IsDebugCmd(wire[Len(wire)], STLinkDebugGetStatus)
    /\ BufTake(sl.data_buf, 0, 2) = <<STLINK_CORE_HALTED, 0>>
    /\ tgt.core = "halted"

\* the transfers of the k-th chunk from position first on are, in order:
\* write PC = SRAM base, run, and then status polls only up to the next
\* chunk's first transfer
StartThenPolls(k, first) ==
    LET last == IF k < Len(runs) THEN runs[k + 1].before ELSE Len(wire)
    IN /\ Len(wire) >= first + 1
       /\ IsWriteReg(wire[first], 15, SRAM_BASE) /\ wire[first].rep = 1
       /\ IsDebugCmd(wire[first + 1], STLinkDebugRunCore) /\ wire[first + 1].rep = 1
       /\ k < Len(runs) =>
              /\ last >= first + 2
              /\ \A j \in (first + 2)..last :
                     IsDebugCmd(wire[j], STLinkDebugGetStatus)

\* C14: every chunk of a flash write puts on the wire, in this order, the
\* upload to SRAM, the write of register 15 (PC) with the SRAM base
\* 0x20000000, the run command and only then its status polls; and the next
\* chunk is started only from a state in which the last poll reported halted.
C14_ChunkCommandOrder ==
    /\ \A k \in 1..Len(runs) :
           /\ Len(wire) >= runs[k].before + 1
           /\ IsMemWrite(wire[runs[k].before + 1])
           /\ CmdAddr(wire[runs[k].before + 1]) = SRAM_BASE
           /\ wire[runs[k].before + 1].rep = 1
           /\ StartThenPolls(k, runs[k].before + 2)
    /\ (pc = "fw_chunk" /\ Len(runs) >= 1) => ObservedHalted

\* C15: before a later chunk is started the writer has read the flash status
\* register, as the last transfer before that chunk's first, and a loader is
\* started for chunk k+1 only when the status left by chunk k has neither
\* bit 0x04 nor bit 0x10.
C15_ErrorStopsLaterChunks ==
    \A k \in 2..Len(runs) :
        /\ IsDebugCmd(wire[runs[k].before], STLinkDebugReadMem32bit)
        /\ (k = Len(runs) /\ tgt.core = "running") =>
               BitAnd(tgt.sr, FLASH_SR_PGERR + FLASH_SR_WRPRTERR) = 0

\* C16: a write whose every chunk was seen halted returns a value other than
\* 0 whenever the flash status register of the chip shows bit 0x04 or bit
\* 0x10 after the loader runs, and returns 0 only when the register shows
\* none of the bits 0x01, 0x04, 0x10.
C16_StatusErrorReturned ==
    fw.exit = "normal" =>
        /\ BitAnd(tgt.sr, FLASH_SR_PGERR + FLASH_SR_WRPRTERR) # 0 => fw.ret # 0
        /\ fw.ret = 0 =>
               BitAnd(tgt.sr, FLASH_SR_BSY + FLASH_SR_PGERR + FLASH_SR_WRPRTERR) = 0

\* stm_id_chip has returned
IdDone == pc = "id_done"

\* the ID-code as the target sent it: the four bytes of the last reply,
\* least significant first
RawIdcode == LE32(BufTake(sl.data_buf, 0, 4))

\* the indices of the records whose ID-code is c
MatchingRecords(c) ==
    {i \in 0..(Len(stm_devids) - 1) : stm_devids[i + 1].dbgmcu_idcode = c}

\* the lowest index of a matching record, 0 when there is none
FirstMatchOrFallback(c) ==
    IF MatchingRecords(c) = {} THEN 0
    ELSE CHOOSE i \in MatchingRecords(c) : \A j \in MatchingRecords(c) : i <= j

\* C17: when stm_id_chip returns, the personality index is the lowest index
\* of a record whose ID-code equals the ID-code the target sent, index 0
\* when no record has it, and the session holds that ID-code in both cases.
C17_FirstMatchAndRawIdcode ==
    IdDone =>
        /\ sl.chip_index = FirstMatchOrFallback(RawIdcode)
        /\ sl.cpu_idcode = RawIdcode

\* the addresses of the memory reads on the wire, in order
RECURSIVE ReadAddrs(_)
ReadAddrs(w) ==
    IF w = <<>> THEN <<>>
    ELSE (IF IsDebugCmd(w[1], STLinkDebugReadMem32bit)
          THEN <<CmdAddr(w[1])>> ELSE <<>>) \o ReadAddrs(Tail(w))

\* C18: the MCU ID-code is read from 0x40015800 when the core ID is that of
\* a Cortex-M0 and from 0xE0042000 otherwise: the reads identification
\* makes are one read, of the address the core ID alone determines.
C18_IdcodeAddressByCore ==
    IdDone =>
        ReadAddrs(wire) = << IF tgt.core_id = arm_cores[1].core_id
                             THEN M0_IDCODE_ADDR ELSE DBGMCU_IDCODE >>

\* C19: identification that finds no record for the MCU ID-code surfaces a
\* warning, as it does for a core ID that names no core, and still
\* completes with the fallback record.
C19_WarningWhenNoMatch ==
    IdDone =>
        /\ id.ret = 0
        /\ CoreScan(id.core_id, 0) = Len(arm_cores) - 1 =>
               "core ID did not match" \in id.warnings
        /\ MatchingRecords(id.idcode) = {} =>
               /\ sl.chip_index = 0
               /\ "MCU ID-code did not match" \in id.warnings

\* C20: a target with core ID 0x1BA01477 and MCU ID-code 0x20036410 is
\* identified as "STM32F10x medium-density": flash at 0x08000000, 128 KB of
\* it, in pages of 1 KB.
C20_IdentifyF103 ==
    (/\ IdDone
     /\ tgt.core_id = arm_cores[2].core_id
     /\ LE32(MemBytes(tgt, DBGMCU_IDCODE, 4)) = 537093136) =>
        LET chip == stm_devids[sl.chip_index + 1]
        IN /\ chip.name = "STM32F10x medium-density"
           /\ chip.flash_base = 134217728
           /\ chip.flash_size = 128 * 1024
           /\ chip.flash_pgsize = 1024

\* the first chunk of a four-byte write at the start of flash on an F1
\* personality has been handed to stl_loader
F1FourByteWrite ==
    /\ Len(runs) >= 1
    /\ ~HasCap(sl.chip_index, ChipCapF4Flash)
    /\ ~HasCap(sl.chip_index, ChipCapL15Flash)
    /\ fw.flash_addr = FLASH_BASE
    /\ fw.buf_len = 4

\* the upload of the first chunk, and the j-th of the four words that
\* precede its payload of n bytes, as the bytes were sent
FirstUpload == wire[runs[1].before + 1]
UploadParamBytes(j, n) ==
    SubSeq(FirstUpload.data, Len(FirstUpload.data) - n - 16 + 4 * j + 1,
           Len(FirstUpload.data) - n - 16 + 4 * j + 4)

\* the status polls that follow the run command of the first chunk
RECURSIVE PollCount(_, _)
PollCount(w, j) ==
    IF j > Len(w) THEN 0
    ELSE (IF IsDebugCmd(w[j], STLinkDebugGetStatus) THEN w[j].rep ELSE 0)
         + PollCount(w, j + 1)

\* C21 as stated: the four-byte write at 0x08000000 on an F1 uploads, in one
\* 32-bit write of 48 bytes to 0x20000000, an image whose parameter words
\* are ctrl_base 0x40022000, src_addr 0x20000000 + 40, dst_addr 0x08000000
\* and hword_count 2; then it sets the PC to 0x20000000 and runs the core.
C21_ImageOf48Bytes ==
    F1FourByteWrite =>
        /\ IsDebugCmd(FirstUpload, STLinkDebugWriteMem32bit)
        /\ CmdAddr(FirstUpload) = SRAM_BASE
        /\ CmdLen(FirstUpload) = 48
        /\ Len(FirstUpload.data) = 48
        /\ LE32(UploadParamBytes(0, 4)) = FLASH_REGS_ADDR
        /\ LE32(UploadParamBytes(1, 4)) = SRAM_BASE + 40
        /\ LE32(UploadParamBytes(2, 4)) = FLASH_BASE
        /\ LE32(UploadParamBytes(3, 4)) = 2
        /\ StartThenPolls(1, runs[1].before + 2)

\* C21, amended: the four-byte write at 0x08000000 on an F1 uploads, in one
\* 32-bit write of 64 bytes to 0x20000000, the 60-byte loader followed by the
\* four payload bytes; the loader's last four words are, as the host stores
\* a uint32_t, ctrl_base 0x40022000, src_addr 0x20000000 + 60, dst_addr
\* 0x08000000 and hword_count 2; then it sets the PC to 0x20000000, runs the
\* core and polls the status at most 201 times, with no other transfer
\* before the poll that ends the chunk.
C21_ImageOf64Bytes ==
    F1FourByteWrite =>
        /\ IsDebugCmd(FirstUpload, STLinkDebugWriteMem32bit)
        /\ FirstUpload.rep = 1
        /\ CmdAddr(FirstUpload) = SRAM_BASE
        /\ CmdLen(FirstUpload) = 64
        /\ Len(FirstUpload.data) = 64
        /\ HostLoad32(UploadParamBytes(0, 4)) = FLASH_REGS_ADDR
        /\ HostLoad32(UploadParamBytes(1, 4)) = SRAM_BASE + 60
        /\ HostLoad32(UploadParamBytes(2, 4)) = FLASH_BASE
        /\ HostLoad32(UploadParamBytes(3, 4)) = 2
        /\ SubSeq(FirstUpload.data, 61, 64) = <<222, 173, 190, 239>>
        /\ StartThenPolls(1, runs[1].before + 2)
        /\ PollCount(wire, runs[1].before + 4) <= FLASH_POLL_LIMIT + 1
        /\ pc = "fw_poll" =>
               \A j \in (runs[1].before + 4)..Len(wire) :
                   IsDebugCmd(wire[j], STLinkDebugGetStatus)

\* the four-byte write on the generic F1 whose loader was seen halted at
\* the first poll
C21_Witness ==
    /\ F1FourByteWrite
    /\ sl.chip_index = 0
    /\ ~bigendian
    /\ pc = "fw_finish"
    /\ PollCount(wire, runs[1].before + 4) = 1
    /\ Len(FirstUpload.data) = 64

\* the probe is in one of the two modes stl_kick_mode takes as usable
ProbeUsable == tgt.mode = STLinkDevMode_Debug \/ tgt.mode = STLinkDevMode_Mass

\* the number of transfers on the wire whose first two command bytes are b0, b1
RECURSIVE CmdCount(_, _, _)
CmdCount(w, b0, b1) ==
    IF w = <<>> THEN 0
    ELSE (IF w[1].cmd[1] = b0 /\ w[1].cmd[2] = b1 THEN w[1].rep ELSE 0)
         + CmdCount(Tail(w), b0, b1)

\* the last transfer was a status query that a reopened probe answered
\* with running or halted
ReportedUsable ==
    /\ Len(wire) >= 1
    /\ IsDebugCmd(wire[Len(wire)], STLinkDebugGetStatus)
    /\ tgt.core \in {"running", "halted"}

\* C22: with the probe in debug or mass-storage mode stl_kick_mode returns 0
\* and the mode query is its only transfer.  Otherwise it sends the DFU exit
\* once and reopens at most ten times; it returns 0 as soon as a reopened
\* probe, after the SWD entry, reports running or halted, and returns -1
\* after the tenth round without such a report.
C22_KickMode ==
    /\ (pc = "km_done" /\ ProbeUsable) =>
           /\ kick.ret = 0
           /\ Len(wire) = 1 /\ wire[1].rep = 1
           /\ wire[1].cmd[1] = STLinkGetCurrentMode
    /\ (pc \in {"km_reopen", "km_done"} /\ ~ProbeUsable) =>
           /\ CmdCount(wire, STLinkDFUCommand, STLinkDFUModeExit) = 1
           /\ kick.i <= KICK_ATTEMPTS
           /\ CmdCount(wire, STLinkDebugCommand, STLinkDebugEnterMode) <= KICK_ATTEMPTS
           /\ CmdCount(wire, STLinkDebugCommand, STLinkDebugGetStatus)
                  = CmdCount(wire, STLinkDebugCommand, STLinkDebugEnterMode)
    /\ (pc = "km_reopen" /\ ~ProbeUsable) => ~ReportedUsable
    /\ (pc = "km_done" /\ ~ProbeUsable) =>
           IF ReportedUsable THEN kick.ret = 0
           ELSE kick.ret = -1 /\ kick.i = KICK_ATTEMPTS

\* the call has put exactly one command on the wire: a memory write with
\* sub-opcode sub, of call.b bytes at call.a, sent as a command transfer
IssuedWrite(sub) ==
    /\ Len(wire) = 1 /\ wire[1].rep = 1
    /\ IsDebugCmd(wire[1], sub)
    /\ CmdAddr(wire[1]) = call.a
    /\ CmdLen(wire[1]) = call.b
    /\ wire[1].dir = STLinkParamToDev
    /\ Len(call.usb) >= 1
    /\ call.usb[1].phase = "command"

\* C23: stl_wr32_cmd(addr, len) issues a 32-bit memory write (0x08) when len
\* is a multiple of 4, an 8-bit memory write (0x0D) when it is not and
\* len < 64, and otherwise returns -1 with no command and no data transfer
\* made.
C23_Wr32Dispatch ==
    (pc = "call_done" /\ call.op = "stl_wr32_cmd") =>
        IF call.b % 4 = 0 THEN IssuedWrite(STLinkDebugWriteMem32bit)
        ELSE IF call.b < 64 THEN IssuedWrite(STLinkDebugWriteMem8bit)
        ELSE call.ret = -1 /\ call.usb = <<>> /\ wire = <<>>

\* a length of 66 has been rejected
C23_Witness ==
    /\ pc = "call_done"
    /\ call.op = "stl_wr32_cmd"
    /\ call.b = 66
    /\ call.ret = -1
    /\ call.usb = <<>>

\* stl_do_cmd has been entered and has returned
DoCmdReturned == pc \in {"call_return", "call_done"} /\ wire # <<>>

\* the k-th USB transfer of the call is on pipe p, of len bytes, in phase ph
UsbIs(k, ph, p, len) ==
    /\ call.usb[k].phase = ph
    /\ call.usb[k].pipe = p
    /\ call.usb[k].len = len

\* C24: a stl_do_cmd makes one command transfer on the OUT endpoint and
\* then at most one data transfer: out, of data_len bytes, when the
\* direction is to-device; in, of data_len bytes, when it is from-device and
\* data_len is not 0; none otherwise.  The command transfer is the first.
C24_CommandThenData ==
    /\ pc = "dc_data" =>
           Len(call.usb) = 1 /\ UsbIs(1, "command", USB_PIPE_OUT, sl.cmd_len)
    /\ DoCmdReturned =>
           /\ Len(call.usb) >= 1
           /\ UsbIs(1, "command", USB_PIPE_OUT, sl.cmd_len)
           /\ IF sl.xfer_dir = STLinkParamToDev
              THEN Len(call.usb) = 2 /\ UsbIs(2, "data", USB_PIPE_OUT, sl.data_len)
              ELSE IF sl.data_len # 0
              THEN Len(call.usb) = 2 /\ UsbIs(2, "data", USB_PIPE_IN, sl.data_len)
              ELSE Len(call.usb) = 1

\* a status query has returned after its command transfer and the IN
\* transfer of its two reply bytes
C24_Witness ==
    /\ DoCmdReturned
    /\ call.op = "stlink_cmd"
    /\ call.b = 2
    /\ Len(call.usb) = 2
    /\ call.usb[2].pipe = USB_PIPE_IN
    /\ call.usb[2].outcome = "ok"

\* a USB transfer of the call failed, was short or timed out
TransferFailed == \E k \in 1..Len(call.usb) : call.usb[k].outcome # "ok"

\* the values the operation returns to its caller when every transfer
\* succeeded: 0 from stl_wr32_cmd and from stl_do_cmd itself, the decoded
\* reply from the operations that return one
SuccessResults(c) ==
    IF c.op \in {"stl_wr32_cmd", "sl_wr32"} THEN {0}
    ELSE IF c.op = "stl_mode" THEN {HostLoad16(<<m, 0>>) : m \in ProbeModes}
    ELSE IF c.op = "sl_rd32" THEN {HostLoad32(RegBytes(FLASH_SR_EOP))}
    ELSE IF c.b = 2 THEN {HostLoad16(<<STLINK_CORE_RUNNING, 0>>),
                          HostLoad16(<<STLINK_CORE_HALTED, 0>>)}
    ELSE IF c.b = 4 THEN {arm_cores[2].core_id}
    ELSE {0}

\* C25: a USB transfer of stl_do_cmd that fails, is short or times out is
\* not made again, and the operation that issued it returns to its caller a
\* result that no successful call returns.
C25_FailureSurfaced ==
    (pc = "call_done" /\ TransferFailed) =>
        /\ Len(call.usb) <= 2
        /\ call.ret \notin SuccessResults(call)

\* the j-th block compared equals the target bytes of the same length at
\* the block's address
BlockMatches(j) ==
    LET b == fv.blocks[j]
    IN SubSeq(fv.file, b.off + 1, b.off + b.len) = MemBytes(tgt, b.addr, b.len)

\* the blocks compared lie one after the other, in the file and on the
\* target, from the flash base on
BlocksRunOn ==
    \A j \in 1..Len(fv.blocks) :
        /\ fv.blocks[j].off = (IF j = 1 THEN 0
                               ELSE fv.blocks[j - 1].off + fv.blocks[j - 1].len)
        /\ fv.blocks[j].addr = FLASH_BASE + fv.blocks[j].off
        /\ fv.blocks[j].len >= 1

\* the blocks compared make up the whole file
BlocksCoverFile ==
    IF fv.blocks = <<>> THEN fv.file = <<>>
    ELSE fv.blocks[Len(fv.blocks)].off + fv.blocks[Len(fv.blocks)].len = Len(fv.file)

\* C26: stlink_fverify compares the file block by block with the target at
\* an address that advances by each block's length; it returns 0 exactly
\* when every block of the file equals the target bytes, and at the first
\* block that does not it returns failure with no later block read.
C26_VerifyBlocks ==
    /\ BlocksRunOn
    /\ pc = "fv_done" =>
           /\ fv.ret = 0 <=>
                  (BlocksCoverFile /\ \A j \in 1..Len(fv.blocks) : BlockMatches(j))
           /\ fv.ret # 0 =>
                  /\ \A j \in 1..(Len(fv.blocks) - 1) : BlockMatches(j)
                  /\ ~BlockMatches(Len(fv.blocks))


(***************************************************************************)
(* main: the command line, one command, the exit status.  The probe's      *)
(* start-up and stm_id_chip are the subject of SpecKick and SpecIdent;     *)
(* here they have left the session on the generic F1.  The commands are    *)
(* program=<file>, flash:v:<file> and a word that is no command.           *)
(***************************************************************************)
STLinkDebugForceDebug == 2      \* 0x02
STLinkDebugResetSys == 3        \* 0x03

stl_enter_debug(W) == stlink_cmd(W, STLinkDebugForceDebug, 0, 2)
stl_reset(W) == stlink_cmd(W, STLinkDebugResetSys, 0, 2)

\* the command lines tried
MainArgs == {"bad_flag", "help", "no_command", "program=", "flash:v:", "word"}

\* the sizes of the file named on the command line
MainFileSizes == {3, 4}

\* main returns
MN_Return(status) ==
    /\ mn' = [mn EXCEPT !.ret = status]
    /\ pc' = "mn_exit"

\* the getopt_long loop and the check that follows it
MN_Parse ==
    /\ pc = "mn_parse"
    /\ IF mn.args = "help" THEN MN_Return(0)
       ELSE IF mn.args = "bad_flag" THEN MN_Return(1)
       ELSE IF mn.args = "no_command" THEN MN_Return(2)
       ELSE /\ pc' = "mn_scan"
            /\ mn' = mn
    /\ UNCHANGED <<bigendian, sl, tgt, wire, fw, er, rd, runs, id, kick, call, fv, cd, ld>>

\* stl_usb_scan and the version check: EXIT_FAILURE when no STLink answers
MN_Scan ==
    /\ pc = "mn_scan"
    /\ \E found \in BOOLEAN :
          IF found
          THEN /\ pc' = "mn_cmd"
               /\ mn' = mn
          ELSE MN_Return(1)
    /\ UNCHANGED <<bigendian, sl, tgt, wire, fw, er, rd, runs, id, kick, call, fv, cd, ld>>

\* after the command loop: the flushing status query, stl_close, and
\* return EXIT_SUCCESS
MN_End ==
    /\ pc = "mn_end"
    /\ Commit(stl_get_status(World))
    /\ MN_Return(0)
    /\ UNCHANGED <<bigendian, fw, er, rd, runs, id, kick, call, fv, cd, ld>>

\* the start of stlink_fverify(sl, path, flash_base)
MainVerify == [IdleFv EXCEPT !.file = mn.file, !.addr = stm_devids[1].flash_base]

\* a command loop whose program= goes from the reset straight to the flash
\* write; C28_ProgramOrder does not hold of it
MN_Command_NoErase ==
    /\ pc = "mn_cmd"
    /\ IF mn.args = "program="
       THEN /\ Commit(stl_reset(stl_enter_debug(World)))
            /\ er' = [IdleEr EXCEPT !.addr_page = MASS_ERASE]
            /\ mn' = [mn EXCEPT !.cmd = "program=", !.step = 2]
            /\ pc' = "er_done"
            /\ fv' = fv
       ELSE IF mn.args = "flash:v:"
       THEN /\ fv' = MainVerify
            /\ mn' = [mn EXCEPT !.cmd = "flash:v:"]
            /\ pc' = "fv_read"
            /\ UNCHANGED <<sl, tgt, wire, er>>
       ELSE /\ mn' = [mn EXCEPT !.cmd = "word",
                         !.out = Append(@, "Unrecognized command")]
            /\ pc' = "mn_end"
            /\ UNCHANGED <<sl, tgt, wire, er, fv>>
    /\ UNCHANGED <<bigendian, fw, rd, runs, id, kick, call, cd, ld>>

\* the command loop takes argv[optind]
MN_Command ==
    /\ pc = "mn_cmd"
    /\ IF mn.args = "program="
       THEN /\ Commit(stl_reset(stl_enter_debug(World)))
            /\ er' = [IdleEr EXCEPT !.addr_page = MASS_ERASE]
            /\ mn' = [mn EXCEPT !.cmd = "program=", !.step = 1]
            /\ pc' = "er_call"
            /\ fv' = fv
       ELSE IF mn.args = "flash:v:"
       THEN /\ fv' = MainVerify
            /\ mn' = [mn EXCEPT !.cmd = "flash:v:"]
            /\ pc' = "fv_read"
            /\ UNCHANGED <<sl, tgt, wire, er>>
       ELSE /\ mn' = [mn EXCEPT !.cmd = "word",
                         !.out = Append(@, "Unrecognized command")]
            /\ pc' = "mn_end"
            /\ UNCHANGED <<sl, tgt, wire, er, fv>>
    /\ UNCHANGED <<bigendian, fw, rd, runs, id, kick, call, cd, ld>>

\* program=: a mass erase has returned; the second one, or stl_flash_fwrite,
\* which reads the file and calls stl_flash_write on it (the byte after an
\* odd-sized file is whatever the stack buffer held)
MN_Erased ==
    /\ pc = "er_done"
    /\ mn.cmd = "program="
    /\ IF mn.step = 1
       THEN /\ er' = [IdleEr EXCEPT !.addr_page = MASS_ERASE]
            /\ pc' = "er_call"
            /\ fw' = fw
       ELSE /\ \E p \in {0, 255} :
                 /\ Len(mn.file) % 2 = 0 => p = 0
                 /\ fw' = [IdleFw EXCEPT !.flash_addr = stm_devids[1].flash_base,
                                         !.buf_len = Len(mn.file),
                                         !.size = Len(mn.file), !.pad = p]
            /\ pc' = "fw_unlock"
            /\ er' = er
    /\ mn' = [mn EXCEPT !.step = @ + 1]
    /\ UNCHANGED <<bigendian, sl, tgt, wire, rd, runs, id, kick, call, fv, cd, ld>>

\* program=: stl_flash_fwrite has returned; "Verifying flash write..."
MN_Written ==
    /\ pc = "done"
    /\ mn.cmd = "program="
    /\ fv' = MainVerify
    /\ mn' = [mn EXCEPT !.step = @ + 1, !.out = Append(@, "Verifying flash write...")]
    /\ pc' = "fv_read"
    /\ UNCHANGED <<bigendian, sl, tgt, wire, fw, er, rd, runs, id, kick, call, cd, ld>>

\* stlink_fverify has returned: its result is printed
MN_Verified ==
    /\ pc = "fv_done"
    /\ mn' = [mn EXCEPT !.res = fv.ret,
                 !.out = Append(@, IF fv.ret = 0 THEN "matched" ELSE "did not match")]
    /\ pc' = "mn_end"
    /\ UNCHANGED <<bigendian, sl, tgt, wire, fw, er, rd, runs, id, kick, call, fv, cd, ld>>

\* the flash before the run: erased, or holding the file
InitMain ==
    /\ bigendian \in BOOLEAN
    /\ sl = InitSession(0)
    /\ wire = <<>>
    /\ pc = "mn_parse"
    /\ \E a \in MainArgs, n \in MainFileSizes, programmed \in BOOLEAN :
          /\ (a \notin {"program=", "flash:v:"}) => (n = 4 /\ ~programmed)
          /\ (a = "program=") => ~programmed
          /\ mn = [IdleMn EXCEPT !.args = a, !.file = FlashImage(n)]
          /\ tgt = [InitTarget(0) EXCEPT
                       !.mem = IF programmed
                               THEN << [a |-> FLASH_BASE, b |-> FlashImage(n)] >>
                               ELSE <<>>]
    /\ fw = IdleFw
    /\ er = IdleEr
    /\ rd = IdleRd
    /\ runs = <<>>
    /\ id = IdleId
    /\ kick = IdleKick
    /\ call = IdleCall
    /\ fv = IdleFv
    /\ cd = IdleCd
    /\ ld = IdleLd

NextMain ==
    \/ MN_Parse \/ MN_Scan \/ MN_Command \/ MN_End
    \/ stl_flash_erase_page \/ F1_EraseStart \/ F1_ErasePoll \/ TargetSR
    \/ MN_Erased
    \/ FW_Unlock \/ FW_Chunk \/ FW_Poll \/ FW_Finish \/ TargetHalt
    \/ MN_Written
    \/ FV_ReadFile \/ RD_Head \/ RD_Block \/ FV_Compare
    \/ MN_Verified

SpecMain == InitMain /\ [][NextMain]_vars


\* main has returned
MainExited == pc = "mn_exit"

\* a verify was run and found the file and the flash to differ
VerifyMismatch == mn.res # 0

\* C27: the exit status of the process is 1 on a usage error caused by a bad
\* flag, 2 when no command is given, 0 when the command succeeds, and
\* non-zero whenever the verify of flash:v:<file> or of program=<file> finds
\* a mismatch.
C27_ExitStatus ==
    MainExited =>
        /\ mn.args = "bad_flag" => mn.ret = 1
        /\ mn.args = "no_command" => mn.ret = 2
        /\ (mn.cmd \in {"program=", "flash:v:"} /\ ~VerifyMismatch) => mn.ret = 0
        /\ VerifyMismatch => mn.ret # 0


\* the transfers of program= by kind: the halt, the reset, a write that
\* starts a mass erase, a transfer of the flash write (an upload to SRAM, the
\* PC, the start of the core), a read of the flash made by the verify
IsHaltCmd(e) == IsDebugCmd(e, STLinkDebugForceDebug)
IsResetCmd(e) == IsDebugCmd(e, STLinkDebugResetSys)
IsMassEraseStart(e) ==
    IsMassEraseWrite(e) /\ BitAnd(WrittenWord(e), FLASH_CR_STRT) # 0
IsLoaderCmd(e) ==
    \/ IsMemWrite(e) /\ InSram(CmdAddr(e))
    \/ IsDebugCmd(e, STLinkDebugWriteReg)
    \/ IsDebugCmd(e, STLinkDebugRunCore)
IsFlashRead(e) == IsDebugCmd(e, STLinkDebugReadMem32bit) /\ InFlash(CmdAddr(e))

\* the places of the wire log, and a transfer of a kind before place i
WireIndices == 1..Len(wire)
Before(i, Kind(_)) == \E j \in 1..(i - 1) : Kind(wire[j])

CodecValues ==
    {0, 1, 128, 129, 255, 256, 513, 4660, 32768, 65535, 65536, 305419896,
     -559038737, -2147483647 - 1, -1}

CD_write_uint32 ==
    /\ pc = "cd_call"
    /\ cd' = [cd EXCEPT !.op = "write_uint32", !.buf = write_uint32(cd.x)]
    /\ pc' = "cd_buf"
    /\ UNCHANGED <<bigendian, sl, tgt, wire, fw, er, rd, runs, id, kick, call, fv, mn, ld>>

\* the argument is a uint16_t
CD_write_uint16 ==
    /\ pc = "cd_call"
    /\ cd.x \in 0..65535
    /\ cd' = [cd EXCEPT !.op = "write_uint16", !.buf = write_uint16(cd.x)]
    /\ pc' = "cd_buf"
    /\ UNCHANGED <<bigendian, sl, tgt, wire, fw, er, rd, runs, id, kick, call, fv, mn, ld>>

CD_read_uint32 ==
    /\ pc = "cd_buf"
    /\ Len(cd.buf) = 4
    /\ cd' = [cd EXCEPT !.y = read_uint32(cd.buf)]
    /\ pc' = "cd_done"
    /\ UNCHANGED <<bigendian, sl, tgt, wire, fw, er, rd, runs, id, kick, call, fv, mn, ld>>

\* the code reads two bytes as a value in one way only: *(uint16_t *)buf
CD_load_uint16 ==
    /\ pc = "cd_buf"
    /\ Len(cd.buf) = 2
    /\ cd' = [cd EXCEPT !.y = HostLoad16(cd.buf)]
    /\ pc' = "cd_done"
    /\ UNCHANGED <<bigendian, sl, tgt, wire, fw, er, rd, runs, id, kick, call, fv, mn, ld>>

\* stlink_cmd with a reply of 2 bytes (the status) and of 4 (the core id)
CD_stlink_cmd ==
    /\ pc = "cd_call"
    /\ \E resp_len \in {2, 4} :
          LET W1 == stlink_cmd(World,
                        IF resp_len = 2 THEN STLinkDebugGetStatus
                        ELSE STLinkDebugReadCoreID, 0, resp_len)
          IN /\ Commit(W1)
             /\ cd' = [cd EXCEPT !.op = "stlink_cmd",
                          !.buf = BufTake(W1.sl.data_buf, 0, resp_len),
                          !.y = stlink_cmd_ret(W1, resp_len)]
    /\ pc' = "cd_done"
    /\ UNCHANGED <<bigendian, fw, er, rd, runs, id, kick, call, fv, mn, ld>>

CD_stl_mode ==
    /\ pc = "cd_call"
    /\ LET W1 == stl_mode(World)
       IN /\ Commit(W1)
          /\ cd' = [cd EXCEPT !.op = "stl_mode",
                       !.buf = BufTake(W1.sl.data_buf, 0, 2),
                       !.y = stl_mode_ret(W1)]
    /\ pc' = "cd_done"
    /\ UNCHANGED <<bigendian, fw, er, rd, runs, id, kick, call, fv, mn, ld>>

\* the probe replies to the mode query with the low half of the value and to
\* the core id query with the value
InitCodec ==
    /\ bigendian \in BOOLEAN
    /\ sl = InitSession(0)
    /\ wire = <<>>
    /\ pc = "cd_call"
    /\ \E x \in CodecValues, core \in {"halted", "running"} :
          /\ cd = [IdleCd EXCEPT !.x = x]
          /\ tgt = [InitTarget(0) EXCEPT !.core = core, !.core_id = x,
                                         !.mode = U16(x)]
    /\ fw = IdleFw
    /\ er = IdleEr
    /\ rd = IdleRd
    /\ runs = <<>>
    /\ id = IdleId
    /\ kick = IdleKick
    /\ call = IdleCall
    /\ fv = IdleFv
    /\ mn = IdleMn
    /\ ld = IdleLd

NextCodec ==
    \/ CD_write_uint32 \/ CD_write_uint16 \/ CD_read_uint32 \/ CD_load_uint16
    \/ CD_stlink_cmd \/ CD_stl_mode

SpecCodec == InitCodec /\ [][NextCodec]_vars

\* the bytes of a value, least significant first
LsbFirst(x, n) == [i \in 1..n |-> ByteOf(x, i - 1)]

\* C29: read_uint32 of the bytes write_uint32(x) produced is x; write_uint32
\* and write_uint16 emit the least significant byte first on either host;
\* the round trip holds for width 16 as for width 32.
C29_CodecRoundTrip ==
    /\ cd.op = "write_uint32" => cd.buf = LsbFirst(cd.x, 4)
    /\ cd.op = "write_uint16" => cd.buf = LsbFirst(cd.x, 2)
    /\ (pc = "cd_done" /\ cd.op \in {"write_uint32", "write_uint16"}) => cd.y = cd.x

\* C30: a 2-byte reply b0, b1 is decoded by stlink_cmd and by stl_mode as
\* b0 + 256*b1 and a 4-byte reply as b0 + 256*b1 + 65536*b2 + 16777216*b3
\* (as a 32-bit pattern), whatever the byte order of the host.
C30_ReplyLittleEndian ==
    (pc = "cd_done" /\ cd.op \in {"stlink_cmd", "stl_mode"}) =>
        cd.y = IF Len(cd.buf) = 2 THEN LE16(cd.buf) ELSE LE32(cd.buf)


\* the number of reads of the register at sr among the transfers of w
RECURSIVE ReadCount(_, _)
ReadCount(w, sr) ==
    IF w = <<>> THEN 0
    ELSE (IF IsDebugCmd(w[1], STLinkDebugReadMem32bit) /\ CmdAddr(w[1]) = sr
          THEN w[1].rep ELSE 0)
         + ReadCount(Tail(w), sr)

ErasePolling == pc \in {"er_f1_poll", "er_f4_poll", "er_L1_poll"}

\* C31: each erase driver reads its status register at least once and at most
\* 1000 times while it waits for BSY to clear, and then returns, whatever
\* the target reports: a driver still in its loop has made fewer than 1000
\* reads, each turn of the loop is one read on the wire, and a driver that
\* returned before the cap saw BSY clear.
C31_ErasePollsBounded ==
    /\ er.i \in 0..ERASE_POLL_LIMIT
    /\ ErasePolling =>
          /\ er.i < ERASE_POLL_LIMIT
          /\ ReadCount(wire, ChipSR(sl.chip_index)) = er.i
    /\ pc = "er_done" =>
          /\ er.i >= 1
          /\ ReadCount(wire, ChipSR(sl.chip_index))
                \in {er.i, er.i + (IF er.driver = "f1" /\ er.ret # 0 THEN 1 ELSE 0)}
          /\ er.i < ERASE_POLL_LIMIT =>
                BitAnd(er.status, BusyBit(sl.chip_index)) = 0

\* a driver has returned after 1000 reads of a status that stayed busy
C31_Witness ==
    /\ pc = "er_done"
    /\ er.i = ERASE_POLL_LIMIT
    /\ BitAnd(er.status, BusyBit(sl.chip_index)) # 0
    /\ er.driver = "f4"


\* the register block of the F4 flash controller
InF4Controller(a) == a >= 1073888256 /\ a < 1073888256 + 1024

\* C32: stl_f4_flash_erase of an address that is not the sentinel writes KEY1
\* then KEY2 to F4_FLASH_KEYR, 0xF3 to F4_FLASH_SR, CR = 0x00202 | (sector<<3)
\* and then CR = 0x10202 | (sector<<3) with sector = addr_page & 0xF; it polls
\* F4_FLASH_SR only after the second control write, testing bit 0x00010000;
\* every register it touches belongs to the controller at 0x40023C00.
C32_F4SectorEraseSequence ==
    (er.driver = "f4" /\ er.addr_page # MASS_ERASE) =>
        LET sector == er.addr_page % 16
        IN /\ WritesThenPolls(<< <<1073888260, 1164378403>>,
                                 <<1073888260, -839939669>>,
                                 <<1073888268, 243>>,
                                 <<1073888272, 514 + sector * 8>>,
                                 <<1073888272, 66050 + sector * 8>> >>,
                              1073888268)
           /\ \A j \in 1..Len(wire) : InF4Controller(CmdAddr(wire[j]))
           /\ (pc = "er_done" /\ er.i < ERASE_POLL_LIMIT) =>
                 BitAnd(er.status, 65536) = 0
           /\ (pc = "er_f4_poll" /\ er.i > 0) => BitAnd(er.status, 65536) # 0

\* an F4 sector erase has returned after polling a controller that was busy
\* and then no longer
C32_Witness ==
    /\ pc = "er_done"
    /\ er.driver = "f4"
    /\ er.addr_page # MASS_ERASE
    /\ er.i > 1
    /\ BitAnd(er.status, 65536) = 0


(***************************************************************************)
(* The loader programs executed: the Thumb instructions of db_loader_code  *)
(* and f4_loader_code, decoded from the image that stl_loader uploads from *)
(* a little-endian host, one action per instruction.  ld.ip is the index   *)
(* of the next half-word of the image; the registers hold 32-bit patterns. *)
(* After a half-word store the flash controller shows ld.sr, with BSY on   *)
(* top for the next ld.busy reads of its status register; a store is       *)
(* recorded with its address, its value and the status it leaves.          *)
(***************************************************************************)
MaxHwords == 3        \* half-word counts are 0..MaxHwords
MaxBusy == 2          \* a store keeps the controller busy for 0..MaxBusy reads

\* the half-word and the word of the image at a byte offset
ImgHw(off) == LE16(<<ld.img[off + 1], ld.img[off + 2]>>)
ImgWord(off) == LE32(<<ld.img[off + 1], ld.img[off + 2], ld.img[off + 3],
                       ld.img[off + 4]>>)

\* the instruction at ld.ip and its fields
Hw == ImgHw(2 * ld.ip)
Hw2 == ImgHw(2 * ld.ip + 2)
Imm8 == Hw % 256
Rd8 == (Hw \div 256) % 8
Running == ~ld.halted

\* the controller's registers, from the base the loader keeps in r4
LdIsSR(a) == a = LoaderCtrlBase(ld.chip, FLASH_BASE) + 12
LdIsCR(a) == a = LoaderCtrlBase(ld.chip, FLASH_BASE) + 16

\* what the families show in their status registers: the busy bit and the
\* values after a store (no error, or an error)
LdBusyBit == IF HasCap(ld.chip, ChipCapF4Flash) THEN F4_FLASH_SR_BSY ELSE FLASH_SR_BSY
LdOutcomes == IF HasCap(ld.chip, ChipCapF4Flash) THEN {0, 16, 128}
              ELSE {0, FLASH_SR_PGERR, FLASH_SR_WRPRTERR}

LdStep(r, z) == ld' = [ld EXCEPT !.r = r, !.z = z, !.ip = @ + 1]
LdRest == UNCHANGED <<bigendian, sl, tgt, wire, pc, fw, er, rd, runs, id, kick,
                      call, fv, mn, cd>>

\* 01001 Rt imm8: ldr Rt, [pc, #imm8*4], the pc being Align(address + 4, 4)
LD_ldr_literal ==
    /\ Running /\ Hw \div 2048 = 9
    /\ LdStep([ld.r EXCEPT ![Rd8] =
                  ImgWord(((2 * ld.ip + 4) \div 4) * 4 + 4 * Imm8)], ld.z)
    /\ LdRest

\* 00100 Rd imm8: movs Rd, #imm8
LD_movs ==
    /\ Running /\ Hw \div 2048 = 4
    /\ LdStep([ld.r EXCEPT ![Rd8] = Imm8], Imm8 = 0)
    /\ LdRest

\* 00110 Rdn imm8: adds Rdn, #imm8
LD_adds ==
    /\ Running /\ Hw \div 2048 = 6
    /\ LdStep([ld.r EXCEPT ![Rd8] = @ + Imm8], ld.r[Rd8] + Imm8 = 0)
    /\ LdRest

\* 00111 Rdn imm8: subs Rdn, #imm8
LD_subs ==
    /\ Running /\ Hw \div 2048 = 7
    /\ LdStep([ld.r EXCEPT ![Rd8] = @ - Imm8], ld.r[Rd8] - Imm8 = 0)
    /\ LdRest

\* 01100 imm5 Rn Rt: str Rt, [Rn, #imm5*4]; the loader stores to the control
\* register only
LD_str ==
    /\ Running /\ Hw \div 2048 = 12
    /\ LdIsCR(ld.r[(Hw \div 8) % 8] + 4 * ((Hw \div 64) % 32))
    /\ ld' = [ld EXCEPT !.cr = Append(@, ld.r[Hw % 8]), !.ip = @ + 1]
    /\ LdRest

\* 01101 imm5 Rn Rt: ldr Rt, [Rn, #imm5*4]; the loader loads from the status
\* register only
LD_ldr ==
    /\ Running /\ Hw \div 2048 = 13
    /\ LdIsSR(ld.r[(Hw \div 8) % 8] + 4 * ((Hw \div 64) % 32))
    /\ LET v == IF ld.busy > 0 THEN BitOr(ld.sr, LdBusyBit) ELSE ld.sr
       IN ld' = [ld EXCEPT !.r[Hw % 8] = v, !.busy = Max(@ - 1, 0),
                           !.ip = @ + 1]
    /\ LdRest

\* 11111 000001 1 Rn | 0000 1111 imm8: tst.w Rn, #imm8
LD_tst ==
    /\ Running /\ Hw \div 16 = 3841 /\ Hw2 \div 256 = 15
    /\ ld' = [ld EXCEPT !.z = BitAnd(ld.r[Hw % 16], Hw2 % 256) = 0,
                        !.ip = @ + 2]
    /\ LdRest

\* 1101 0001 imm8: bne, to address + 4 + 2 * imm8 (imm8 signed)
LD_bne ==
    /\ Running /\ Hw \div 256 = 209
    /\ ld' = [ld EXCEPT !.ip = IF ld.z THEN @ + 1
                               ELSE @ + 2 + (IF Imm8 >= 128 THEN Imm8 - 256 ELSE Imm8)]
    /\ LdRest

\* 11111 0000011 Rn | Rt 1011 imm8: ldrh Rt, [Rn], #imm8 (post-indexed); past
\* the end of the upload the SRAM holds whatever it held
LD_ldrh ==
    /\ Running /\ Hw \div 16 = 3971 /\ (Hw2 \div 256) % 16 = 11
    /\ LET rn == Hw % 16
           off == ld.r[rn] - SRAM_BASE
       IN \E v \in (IF off + 2 <= Len(ld.img) THEN {ImgHw(off)} ELSE {0, 65535}) :
             ld' = [ld EXCEPT !.r = [ld.r EXCEPT ![Hw2 \div 4096] = v,
                                                 ![rn] = @ + (Hw2 % 256)],
                              !.ip = @ + 2]
    /\ LdRest

\* 11111 0000010 Rn | Rt 1011 imm8: strh Rt, [Rn], #imm8 (post-indexed), a
\* store into the flash; the run is followed up to MaxHwords + 1 stores
LD_strh ==
    /\ Running /\ Hw \div 16 = 3970 /\ (Hw2 \div 256) % 16 = 11
    /\ Len(ld.stores) <= MaxHwords
    /\ LET rn == Hw % 16
       IN \E b \in 0..MaxBusy, e \in LdOutcomes :
             ld' = [ld EXCEPT !.stores = Append(@, [a |-> ld.r[rn],
                                                    v |-> ld.r[Hw2 \div 4096],
                                                    e |-> e]),
                              !.r[rn] = @ + (Hw2 % 256),
                              !.sr = e, !.busy = b,
                              !.ip = @ + 2]
    /\ LdRest

\* 1011 1110 imm8: bkpt
LD_bkpt ==
    /\ Running /\ Hw \div 256 = 190
    /\ ld' = [ld EXCEPT !.halted = TRUE]
    /\ LdRest

\* the core is started at the image that stl_loader builds for a write of
\* 2 * n bytes at the flash base of a generic F1 or of an F4
InitLoader ==
    /\ bigendian = FALSE
    /\ sl = InitSession(0)
    /\ wire = <<>>
    /\ pc = "ld_run"
    /\ tgt = InitTarget(0)
    /\ \E chip \in {0, 13}, n \in 0..MaxHwords :
          ld = [IdleLd EXCEPT
                   !.chip = chip,
                   !.img = LoaderImage(<<>>, chip, FLASH_BASE,
                                       [k \in 1..(2 * n) |-> SrcByte(k - 1)], 2 * n),
                   !.halted = FALSE]
    /\ fw = IdleFw
    /\ er = IdleEr
    /\ rd = IdleRd
    /\ runs = <<>>
    /\ id = IdleId
    /\ kick = IdleKick
    /\ call = IdleCall
    /\ fv = IdleFv
    /\ mn = IdleMn
    /\ cd = IdleCd

NextLoader ==
    \/ LD_ldr_literal \/ LD_movs \/ LD_adds \/ LD_subs \/ LD_str \/ LD_ldr
    \/ LD_tst \/ LD_bne \/ LD_ldrh \/ LD_strh \/ LD_bkpt

SpecLoader == InitLoader /\ [][NextLoader]_vars


\* the loader has stopped at its breakpoint
LoaderHalted == pc = "ld_run" /\ ld.halted

\* the status left by the last store has one of the error bits the family's
\* loader tests (0x14 on F1 and L1, 0xF0 on F4)
LoaderErrorMask == IF HasCap(ld.chip, ChipCapF4Flash) THEN 240 ELSE 20
LoaderSawError == BitAnd(ld.sr, LoaderErrorMask) # 0

\* C33: both loaders clear CR.PG, by writing 0 to the flash control
\* register, before they execute the breakpoint, on the normal path (count
\* reached zero) and on the error path (an error bit in the status) alike.
C33_PgClearedBeforeBkpt ==
    LoaderHalted =>
        /\ Len(ld.cr) >= 2
        /\ ld.cr[1] = 1
        /\ ld.cr[Len(ld.cr)] = 0


\* the parameters as the image holds them: word j of the four before the
\* payload (0: ctrl_base, 1: src_addr, 2: dst_addr, 3: hword_count)
ImgParam(j) == ImgWord(SizeofCode(LoaderCode(ld.chip)) - 16 + 4 * j)

\* C34: the loader copies the half-words from src_addr to dst_addr in
\* increasing address order and never more than hword_count of them; after a
\* store that left an error bit of the family it copies no further one; when
\* it halts with no error bit it has copied exactly hword_count half-words
\* and its count is 0; it halts at the breakpoint instruction only.
C34_LoaderCopiesAndHalts ==
    pc = "ld_run" =>
        /\ Len(ld.stores) <= ImgParam(3)
        /\ \A k \in 1..Len(ld.stores) :
              /\ ld.stores[k].a = ImgParam(2) + 2 * (k - 1)
              /\ ld.stores[k].v = ImgHw(ImgParam(1) - SRAM_BASE + 2 * (k - 1))
              /\ k < Len(ld.stores) =>
                    BitAnd(ld.stores[k].e, LoaderErrorMask) = 0
        /\ ld.halted =>
              /\ Hw \div 256 = 190
              /\ ~LoaderSawError =>
                    Len(ld.stores) = ImgParam(3) /\ ld.r[2] = 0


\* the last transfer made
LastTransfer(w) == w[Len(w)]

\* C35: in stl_read every block transfer requests at most 1024 bytes, a
\* multiple of 4, at a 4-aligned address, and the number of bytes then copied
\* from the transfer buffer into the caller's buffer is at most the number
\* requested in that block and at most the size of the transfer buffer.
C35_ReadBlocksWithinRequest ==
    [][pc = "rd_block" =>
          LET e == LastTransfer(wire')
              copied == rd'.offset - rd.offset
          IN /\ IsDebugCmd(e, STLinkDebugReadMem32bit)
             /\ e.data_len <= 1024
             /\ e.data_len % 4 = 0
             /\ CmdAddr(e) % 4 = 0
             /\ copied <= e.data_len
             /\ copied <= Q_BUF_LEN]_vars


\* bytes 2..5 and 6..7 of a command, as the bytes they are
CmdAddrBytes(e) == SubSeq(e.cmd, 3, 6)
CmdLenBytes(e) == SubSeq(e.cmd, 7, 8)

\* a call of stl_rd32_cmd, direct or through sl_rd32, has put its frame on
\* the wire
Rd32Framed ==
    /\ call.op \in {"sl_rd32", "stl_rd32_cmd"}
    /\ pc \in {"call_return", "call_done"}

\* C36: every read-mem32 frame stl_rd32_cmd puts on the wire carries the
\* 4-aligned address (addr & ~3), least-significant byte first, in command
\* bytes 2..5 and the length rounded up to a multiple of 4 in bytes 6..7, for
\* every addr and len, an unaligned addr included.
C36_ReadFrameAligned ==
    Rd32Framed =>
        LET e == LastTransfer(wire)
            len == IF call.op = "sl_rd32" THEN 4 ELSE call.b
        IN /\ IsDebugCmd(e, STLinkDebugReadMem32bit)
           /\ CmdAddrBytes(e) = LsbFirst(call.a - (call.a % 4), 4)
           /\ CmdLenBytes(e) = LsbFirst(len + 3 - ((len + 3) % 4), 2)


\* stl_do_cmd is about to make the transfers of the command set up
BeforeTransfer == pc \in {"dc_command", "dc_data"}

\* C37: before every transfer the declared command length is at most the
\* size of the command buffer (CDB_SIZE) and the declared data length is at
\* most the size of the data buffer (Q_BUF_LEN), so that neither phase sends
\* or receives bytes outside the session's buffers.
C37_LengthsWithinBuffers ==
    BeforeTransfer =>
        /\ sl.cmd_len <= CDB_SIZE
        /\ sl.cmd_len <= Len(sl.cmd_buf)
        /\ sl.data_len <= Q_BUF_LEN


(***************************************************************************)
(* stl_flash_write called with any size, an empty buffer included.         *)
(***************************************************************************)
InitWriteAny ==
    /\ \E t \in WriteTargets :
          /\ sl = InitSession(t[1])
          /\ tgt = InitTarget(t[1])
          /\ \E n \in {0} \cup WriteSizes(t[1], t[2]), p \in {0, 255} :
                /\ (n % 2 = 0 => p = 0)
                /\ bigendian \in WriteHosts(t[1], n)
                /\ fw = [IdleFw EXCEPT !.flash_addr = t[2], !.buf_len = n,
                                       !.size = n, !.pad = p]
    /\ wire = <<>>
    /\ pc = "fw_unlock"
    /\ er = IdleEr
    /\ rd = IdleRd
    /\ runs = <<>>
    /\ id = IdleId
    /\ kick = IdleKick
    /\ call = IdleCall
    /\ fv = IdleFv
    /\ mn = IdleMn
    /\ cd = IdleCd
    /\ ld = IdleLd

SpecWriteAny == InitWriteAny /\ [][NextWrite]_vars

\* the hword_count word of the parameter block the host built last, as the
\* host stored it
BuiltHwordCount ==
    LET prog_len == SizeofCode(LoaderCode(sl.chip_index))
    IN HostLoad32(BufTake(sl.data_buf, prog_len - 4, 4))

\* C38: stl_flash_write never starts the loader with a half-word count of 0:
\* for a buffer of size 0 it uploads nothing and runs nothing, and for every
\* size >= 1 each loader run has a half-word count between 1 and 1024.
C38_LoaderCountPositive ==
    /\ fw.buf_len = 0 =>
          /\ runs = <<>>
          /\ \A j \in 1..Len(wire) :
                /\ ~(IsMemWrite(wire[j]) /\ CmdAddr(wire[j]) = SRAM_BASE)
                /\ ~IsDebugCmd(wire[j], STLinkDebugRunCore)
    /\ \A k \in 1..Len(runs) : runs[k].size \div 2 \in 1..1024
    /\ pc = "fw_poll" => BuiltHwordCount \in 1..1024


\* C39: on every return path of stl_flash_write, the one taken when the halt
\* poll exceeds its cap included, the LOCK bit has been written to FLASH_CR
\* after the last loader run.
C39_RelockOnEveryReturn ==
    FwReturned =>
        \E i \in 1..Len(wire) :
            /\ i > LastRunIndex
            /\ IsWr32(wire[i], FLASH_CR, FLASH_CR_LOCK)

====
